---- MODULE Spec2Model ----
(***************************************************************************)
(* Verification model of the oracle route planner (asmith464464/oracle).   *)
(*                                                                         *)
(* The module models the task model (src/src/tasks.py), the hex grid       *)
(* (src/src/map_model.py), the distance calculator                         *)
(* (src/src/distance_utils.py), route repair (src/src/route_utils.py),     *)
(* the cycle heuristic (src/src/heuristic.py), the cycle dependency        *)
(* analyser (src/src/cycle_dependencies.py) and the route simulator        *)
(* (src/src/simulator.py).                                                 *)
(*                                                                         *)
(* Reading conventions:                                                    *)
(*  - The sources spell the neighbour list of a Tile both `neighbours`     *)
(*    (map_model.py, simulator.py) and `neighbors` (tasks.py,              *)
(*    distance_utils.py, route_utils.py, heuristic.py).  Both spellings    *)
(*    are read as the one neighbour-id list of the tile.                   *)
(*  - Tile ids are the naturals 1..Len(Coords); their numeric order is the *)
(*    lexicographic order of the zero-padded ids ("tile_007") of the maps. *)
(*  - Neighbour lists are the ones recompute_neighbours_from_coords        *)
(*    derives from the coordinates (sorted, symmetric).                    *)
(***************************************************************************)
EXTENDS Integers, Sequences, FiniteSets, TLC

\* ------------------------------------------------------------------------
\* Bounds of the model
\* ------------------------------------------------------------------------
\* Most cycles in a list handed to topological_sort.
MaxCycles == 4
\* Most tiles that follow the hub in a route handed to repair_route.
MaxRepairLen == 2
\* Longest simulated route, counted in moves (route pairs).
MaxRoute == 4
\* Most PlayerState.execute_move calls in the task-API specification.
MaxMoves == 2

\* ------------------------------------------------------------------------
\* Generic helpers
\* ------------------------------------------------------------------------
Min(S) == CHOOSE x \in S : \A y \in S : x <= y
Max(S) == CHOOSE x \in S : \A y \in S : x >= y

RECURSIVE SortedSeq(_)
SortedSeq(S) == IF S = {} THEN <<>> ELSE <<Min(S)>> \o SortedSeq(S \ {Min(S)})

Range(s) == {s[k] : k \in DOMAIN s}

\* All sequences that take their k-th element from the k-th set.
RECURSIVE SeqProduct(_)
SeqProduct(sets) ==
  IF sets = <<>> THEN {<<>>}
  ELSE {Append(s, x) : s \in SeqProduct(SubSeq(sets, 1, Len(sets) - 1)),
                       x \in sets[Len(sets)]}

Last(s) == s[Len(s)]

\* A value named once: With(e, LAMBDA x : f(x)) is f(e).
With(value, Body(_)) == Body(value)

\* ------------------------------------------------------------------------
\* map_model.py : tiles, kinds, hex adjacency
\* ------------------------------------------------------------------------
TileType == {"water", "monster", "offering", "statue_source",
             "statue_island", "temple", "shrine"}

\* The map used by the simulator and task specifications: (col, row) of
\* tile 1..12, a 4 x 3 patch.
\*      1   2   3   4
\*        5   6   7   8
\*      9  10  11  12
Coords == << <<0, 0>>, <<1, 0>>, <<2, 0>>, <<3, 0>>,
             <<0, 1>>, <<1, 1>>, <<2, 1>>, <<3, 1>>,
             <<0, 2>>, <<1, 2>>, <<2, 2>>, <<3, 2>> >>

TileIds == DOMAIN Coords

even_row_offsets == << <<0 - 1, 0>>, <<1, 0>>, <<0 - 1, 0 - 1>>,
                       <<0, 0 - 1>>, <<0 - 1, 1>>, <<0, 1>> >>
odd_row_offsets == << <<0 - 1, 0>>, <<1, 0>>, <<0, 0 - 1>>,
                      <<1, 0 - 1>>, <<0, 1>>, <<1, 1>> >>

\* recompute_neighbours_from_coords: sorted ids of the tiles found at the
\* six offsets selected by the parity of the row.
recompute_neighbours_from_coords(coords) ==
  [t \in DOMAIN coords |->
     LET col == coords[t][1]
         row == coords[t][2]
         offsets == IF row % 2 = 0 THEN even_row_offsets ELSE odd_row_offsets
     IN SortedSeq({n \in DOMAIN coords :
                     \E k \in DOMAIN offsets :
                        coords[n] = <<col + offsets[k][1], row + offsets[k][2]>>})]

neighbours == recompute_neighbours_from_coords(Coords)

VARIABLES
  tile_type,        \* HexGrid.tiles[t].tile_type
  colours,          \* HexGrid.tiles[t].colours
  zeus_tile_id,     \* HexGrid.zeus_tile_id
  tm,               \* TaskManager: tasks, shrine bookkeeping
  player,           \* PlayerState of the running simulation
  sim,              \* RouteSimulator.simulate_route: loop position, result;
                    \* sim.steps[i] is the action_type of trace entry i
  exec_log,         \* history: successful task executions, in order
  last_call,        \* history: the last direct TaskManager.execute_task call
  topo,             \* CycleDependencyAnalyzer.topological_sort: input and result
  solver            \* CycleHeuristic: cycles, routes, position in solve()

vars == <<tile_type, colours, zeus_tile_id, tm, player, sim, exec_log, last_call,
          topo, solver>>

is_water(t) == tile_type[t] = "water"

get_adjacent_water_tiles(t) == SelectSeq(neighbours[t], is_water)

\* ------------------------------------------------------------------------
\* tasks.py : Task, CargoItem, PlayerState
\* ------------------------------------------------------------------------
STATUE_ITEM == "statue"
OFFERING_ITEM == "offering"

selected_colours == <<"pink", "blue", "green">>

can_execute(task, completed_tasks) ==
  \A dep_id \in task.dependencies : dep_id \in completed_tasks

\* The uses of a task never run out.
remaining_uses_unspent(task) == task.max_uses

remaining_uses(task) == task.max_uses - task.uses_completed

record_execution(task) ==
  LET t1 == [task EXCEPT !.uses_completed = @ + 1]
  IN IF remaining_uses(t1) <= 0
       THEN [t1 EXCEPT !.status = "completed"]
       ELSE [t1 EXCEPT !.status = "pending"]

CargoItem(item_type, colour) == [item_type |-> item_type, colour |-> colour]

NewPlayerState(tile) ==
  [current_tile_id |-> tile, total_moves |-> 0, total_turns |-> 0,
   cargo |-> <<>>, completed_task_ids |-> {}, shrines_built |-> <<>>]

execute_move(p, to_tile_id, moves) ==
  LET m == p.total_moves + moves
  IN [p EXCEPT !.current_tile_id = to_tile_id,
               !.total_moves = m,
               !.total_turns = IF m % 3 = 0 THEN @ + 1 ELSE @]

cargo_capacity == 2

cargo_space_remaining(p) == Max({0, cargo_capacity - Len(p.cargo)})

\* Mutant: the cargo never counts as full.
cargo_full_never(p) == FALSE

cargo_full(p) == cargo_space_remaining(p) = 0

\* add_cargo returns <<ok, player>>.
add_cargo(p, item) ==
  IF cargo_full(p) THEN <<FALSE, p>>
  ELSE <<TRUE, [p EXCEPT !.cargo = Append(@, item)]>>

\* Mutant: the colour filter of remove_cargo / count_cargo is dropped.
MatchesItemAnyColour(item, item_type, colour) == item.item_type = item_type

\* The filter of remove_cargo and count_cargo (the colour is never None for
\* the callers in execute_task and complete_task).
MatchesItem(item, item_type, colour) ==
  item.item_type = item_type /\ item.colour = colour

\* remove_cargo pops the first matching item; returns <<ok, player>>.
remove_cargo(p, item_type, colour) ==
  LET hits == {k \in DOMAIN p.cargo : MatchesItem(p.cargo[k], item_type, colour)}
  IN IF hits = {} THEN <<FALSE, p>>
     ELSE LET idx == Min(hits)
          IN <<TRUE, [p EXCEPT !.cargo =
                        SubSeq(@, 1, idx - 1) \o SubSeq(@, idx + 1, Len(@))]>>

count_cargo(p, item_type, colour) ==
  Cardinality({k \in DOMAIN p.cargo : MatchesItem(p.cargo[k], item_type, colour)})

can_deliver_statue(p, colour) == count_cargo(p, STATUE_ITEM, colour) > 0

can_deliver_offerings(p, colour) == count_cargo(p, OFFERING_ITEM, colour) > 0

\* complete_task: the id is recorded first, then the cargo changes; a cargo
\* change that fails raises RuntimeError with the id already recorded.
\* Returns [player, raised].
complete_task(p, task) ==
  LET p1 == [p EXCEPT !.completed_task_ids = @ \cup {task.id}]
      res == CASE task.task_type = "statue_source" ->
                    add_cargo(p1, CargoItem(STATUE_ITEM, task.colour))
               [] task.task_type = "statue_island" ->
                    remove_cargo(p1, STATUE_ITEM, task.colour)
               [] task.task_type = "offering" ->
                    add_cargo(p1, CargoItem(OFFERING_ITEM, task.colour))
               [] task.task_type = "temple" ->
                    remove_cargo(p1, OFFERING_ITEM, task.colour)
               [] OTHER -> <<TRUE, p1>>
  IN [player |-> res[2], raised |-> ~res[1]]

\* Mutant: the shrine is not recorded.
build_shrine_forgotten(p, tile) == p

build_shrine(p, tile) == [p EXCEPT !.shrines_built = Append(@, tile)]

\* ------------------------------------------------------------------------
\* tasks.py : TaskManager
\* ------------------------------------------------------------------------
task_id(tile, task_type, colour) == <<tile, task_type, colour>>

NewTask(tile, task_type, colour, dependencies) ==
  [id |-> task_id(tile, task_type, colour), tile_id |-> tile,
   task_type |-> task_type, colour |-> colour, status |-> "pending",
   dependencies |-> dependencies, max_uses |-> 1, uses_completed |-> 0]

\* Lowest-id tile of the kind that carries the colour; 0 when there is none
\* (the source raises ValueError).
pick_single_tile(tt, cols, task_type, colour) ==
  LET candidates == {t \in DOMAIN tt : tt[t] = task_type /\ colour \in cols[t]}
  IN IF candidates = {} THEN 0 ELSE Min(candidates)

\* The five tasks of one colour, in creation order.
colour_tasks(tt, cols, colour) ==
  LET m  == pick_single_tile(tt, cols, "monster", colour)
      o  == pick_single_tile(tt, cols, "offering", colour)
      s  == pick_single_tile(tt, cols, "statue_source", colour)
      i  == pick_single_tile(tt, cols, "statue_island", colour)
      t  == pick_single_tile(tt, cols, "temple", colour)
  IN << NewTask(m, "monster", colour, {}),
        NewTask(o, "offering", colour, {}),
        NewTask(s, "statue_source", colour, {}),
        NewTask(i, "statue_island", colour, {task_id(s, "statue_source", colour)}),
        NewTask(t, "temple", colour, {task_id(o, "offering", colour)}) >>

\* select_tasks_for_colours: the task dict in insertion order; the empty
\* sequence when a colour misses a required tile (ValueError, no run).
select_tasks_for_colours(tt, cols) ==
  LET all == colour_tasks(tt, cols, selected_colours[1])
             \o colour_tasks(tt, cols, selected_colours[2])
             \o colour_tasks(tt, cols, selected_colours[3])
  IN IF \E k \in DOMAIN all : all[k].tile_id = 0 THEN <<>> ELSE all

NewTaskManager(tt, cols, required, scheduled) ==
  [tasks |-> select_tasks_for_colours(tt, cols),
   required_shrine_count |-> required,
   scheduled_shrines |-> scheduled,
   completed_shrines |-> {}]

\* get_tasks_for_tile: positions (in dict order) of the tasks of a tile.
get_tasks_for_tile(tasks, tile) ==
  SelectSeq([k \in DOMAIN tasks |-> k], LAMBDA k : tasks[k].tile_id = tile)

mark_shrine_built(m, shrine_id) ==
  [m EXCEPT !.completed_shrines = @ \cup {shrine_id}]

remaining_shrine_requirement(m) ==
  LET completed == Cardinality(m.completed_shrines)
      scheduled == Cardinality({k \in DOMAIN m.scheduled_shrines :
                                  m.scheduled_shrines[k] \notin m.completed_shrines})
  IN Max({0, m.required_shrine_count - completed - scheduled})

all_tasks_completed(tasks) ==
  \A k \in DOMAIN tasks : tasks[k].status = "completed"

\* Mutant: execute_task without its kind-specific cargo checks.
cargo_precondition_skipped(task, p) == ""

\* The kind-specific cargo precondition of execute_task ("" when it holds).
cargo_precondition(task, p) ==
  CASE task.task_type = "statue_source" ->
         IF cargo_full(p) THEN "cargo_full"
         ELSE IF task.colour \notin colours[task.tile_id] THEN "colour"
         ELSE ""
    [] task.task_type = "statue_island" ->
         IF ~can_deliver_statue(p, task.colour) THEN "no_item" ELSE ""
    [] task.task_type = "offering" ->
         IF cargo_full(p) THEN "cargo_full" ELSE ""
    [] task.task_type = "temple" ->
         IF ~can_deliver_offerings(p, task.colour) THEN "no_item" ELSE ""
    [] OTHER -> ""

\* The first failing precondition of execute_task ("" when all hold).
execute_task_failure(task, p) ==
  IF remaining_uses(task) <= 0 THEN "no_uses"
  ELSE IF ~can_execute(task, p.completed_task_ids) THEN "dependency"
  ELSE IF task.tile_id \notin TileIds THEN "no_tile"
  ELSE IF p.current_tile_id \notin TileIds
          \/ task.tile_id \notin Range(neighbours[p.current_tile_id])
         THEN "not_adjacent"
  ELSE cargo_precondition(task, p)

\* execute_task on task position k; returns [ok, why, tasks, player, raised].
execute_task(tasks, k, p) ==
  LET task == tasks[k]
      why == execute_task_failure(task, p)
  IN IF why # ""
       THEN [ok |-> FALSE, why |-> why, tasks |-> tasks, player |-> p,
             raised |-> FALSE]
       ELSE LET done == complete_task(p, task)
            IN IF done.raised
                 THEN [ok |-> FALSE, why |-> "raised", tasks |-> tasks,
                       player |-> done.player, raised |-> TRUE]
                 ELSE [ok |-> TRUE, why |-> "",
                       tasks |-> [tasks EXCEPT ![k] = record_execution(task)],
                       player |-> done.player, raised |-> FALSE]

\* ------------------------------------------------------------------------
\* Maps drawn by the simulator and task specifications
\* ------------------------------------------------------------------------
\* Kinds each tile of the 4 x 3 patch may take.  The island (4) is scanned
\* before the source (8) from water tile 7, the offering (1) before the
\* temple (5) from water tile 2; when tile 9 is water the colour pink has no
\* temple and no task is selected.
AllowedTypes ==
  << {"offering"}, {"water"}, {"water"}, {"statue_island"},
     {"temple"}, {"water", "shrine"}, {"water"}, {"statue_source"},
     {"temple", "water"}, {"water"}, {"monster"}, {"shrine", "water"} >>

SimZeus == 6

SimGrids == SeqProduct(AllowedTypes)

\* Colour tags of the task tiles: temple 5 serves blue and green, temple 9
\* pink; the other task tiles carry the three selected colours; water and
\* shrines none.
SimColours(tt) ==
  [t \in TileIds |->
     IF tt[t] \in {"water", "shrine"} THEN {}
     ELSE IF t = 5 THEN {"blue", "green"}
     ELSE IF t = 9 THEN {"pink"}
     ELSE Range(selected_colours)]

\* An id that names no tile of the grid.
NoTile == 0

IdleSim == [pc |-> "idle", route_len |-> 0, route_last |-> NoTile, shrine_set |-> {},
            steps |-> <<>>, errors |-> <<>>, success |-> FALSE, raised |-> FALSE]

NoCall == [ok |-> TRUE, why |-> ""]

IdleTopo == [pc |-> "idle", cycles |-> <<>>, sorted |-> <<>>]

IdleSolver == [pc |-> "idle"]

\* ------------------------------------------------------------------------
\* Specification SpecTask: the TaskManager / PlayerState API called directly
\* ------------------------------------------------------------------------
\* The task API does not look at the hub or at shrines: one kind for each.
TaskGrids == {tt \in SimGrids : tt[SimZeus] = "water" /\ tt[12] = "shrine"}

TaskInit ==
  /\ tile_type \in TaskGrids
  /\ colours = SimColours(tile_type)
  /\ zeus_tile_id = SimZeus
  /\ tm = NewTaskManager(tile_type, colours, 0, <<>>)
  /\ player = NewPlayerState(zeus_tile_id)
  /\ sim = IdleSim
  /\ exec_log = <<>>
  /\ last_call = NoCall
  /\ topo = IdleTopo
  /\ solver = IdleSolver

\* PlayerState.execute_move(to, 1): the boat is put on any water tile or on
\* the hub (the method itself validates nothing).
TaskMove(to) ==
  /\ player.total_moves < MaxMoves
  /\ is_water(to) \/ to = zeus_tile_id
  /\ player' = execute_move(player, to, 1)
  /\ last_call' = NoCall
  /\ UNCHANGED <<topo, solver, tile_type, colours, zeus_tile_id, tm, sim, exec_log>>

\* TaskManager.execute_task(task, player_state) for any task.
TaskExecute(k) ==
  LET r == execute_task(tm.tasks, k, player)
  IN /\ tm' = [tm EXCEPT !.tasks = r.tasks]
     /\ player' = r.player
     /\ sim' = [sim EXCEPT !.raised = r.raised]
     /\ last_call' = [ok |-> r.ok, why |-> r.why]
     /\ UNCHANGED <<topo, solver, tile_type, colours, zeus_tile_id, exec_log>>

TaskNext ==
  \/ \E to \in TileIds : TaskMove(to)
  \/ \E k \in DOMAIN tm.tasks : TaskExecute(k)

SpecTask == TaskInit /\ [][TaskNext]_vars

\* ------------------------------------------------------------------------
\* simulator.py : RouteSimulator
\* ------------------------------------------------------------------------
\* Mutant: _simulate_step without the water-or-hub check of the destination.
simulate_step_error_no_water_check(from_tile_id, to_tile_id) ==
  IF from_tile_id \notin TileIds \/ to_tile_id \notin TileIds THEN "invalid_tile"
  ELSE IF to_tile_id \notin Range(neighbours[from_tile_id]) THEN "not_adjacent"
  ELSE ""

\* The validation of _simulate_step: "" for a legal move, else the error.
simulate_step_error(from_tile_id, to_tile_id) ==
  IF from_tile_id \notin TileIds \/ to_tile_id \notin TileIds THEN "invalid_tile"
  ELSE IF to_tile_id \notin Range(neighbours[from_tile_id]) THEN "not_adjacent"
  ELSE IF to_tile_id # zeus_tile_id /\ ~is_water(to_tile_id) THEN "non_water"
  ELSE ""

\* Task positions _check_and_execute_tasks looks at, in scan order: the
\* tasks of every non-water neighbour, neighbour by neighbour.
RECURSIVE tasks_in_scan_order(_, _)
tasks_in_scan_order(tasks, nbrs) ==
  IF nbrs = <<>> THEN <<>>
  ELSE (IF is_water(Head(nbrs)) THEN <<>> ELSE get_tasks_for_tile(tasks, Head(nbrs)))
       \o tasks_in_scan_order(tasks, Tail(nbrs))

\* Whether the cargo holds an item of the kind and colour a delivery hands in
\* (TRUE for the other task kinds); recorded in exec_log.
HoldsItemFor(task, cargo) ==
  CASE task.task_type = "statue_island" ->
         \E k \in DOMAIN cargo : cargo[k] = CargoItem(STATUE_ITEM, task.colour)
    [] task.task_type = "temple" ->
         \E k \in DOMAIN cargo : cargo[k] = CargoItem(OFFERING_ITEM, task.colour)
    [] OTHER -> TRUE

\* The loop of _check_and_execute_tasks over the candidates; st carries
\* [tasks, player, raised, log, acted].
RECURSIVE run_tasks(_, _, _)
run_tasks(cands, st, step_number) ==
  IF cands = <<>> \/ st.raised THEN st
  ELSE LET k == Head(cands)
           task == st.tasks[k]
       IN IF task.status = "pending" /\ can_execute(task, st.player.completed_task_ids)
            THEN LET r == execute_task(st.tasks, k, st.player)
                 IN run_tasks(Tail(cands),
                      [tasks |-> r.tasks, player |-> r.player, raised |-> r.raised,
                       log |-> IF r.ok
                                 THEN Append(st.log, [id |-> task.id, step |-> step_number,
                                                      held |-> HoldsItemFor(task, st.player.cargo)])
                                 ELSE st.log,
                       acted |-> st.acted \/ r.ok],
                      step_number)
            ELSE run_tasks(Tail(cands), st, step_number)

check_and_execute_tasks(current_tile_id, st, step_number) ==
  run_tasks(tasks_in_scan_order(st.tasks, neighbours[current_tile_id]), st, step_number)

\* The loop of _check_and_build_shrines; st carries [player, tm, acted].
RECURSIVE check_and_build_shrines(_, _, _)
check_and_build_shrines(nbrs, st, shrine_positions) ==
  IF nbrs = <<>> THEN st
  ELSE LET n == Head(nbrs)
       IN IF tile_type[n] = "shrine" /\ n \in shrine_positions
             /\ n \notin Range(st.player.shrines_built)
            THEN check_and_build_shrines(Tail(nbrs),
                   [player |-> build_shrine(st.player, n),
                    tm |-> mark_shrine_built(st.tm, n),
                    acted |-> TRUE],
                   shrine_positions)
            ELSE check_and_build_shrines(Tail(nbrs), st, shrine_positions)

\* PlayerState.has_item is called by _validate_final_state but tasks.py does
\* not define it; it is read as "the cargo holds an item of the kind".
has_item(p, item_type) ==
  \E k \in DOMAIN p.cargo : p.cargo[k].item_type = item_type

\* _validate_final_state: the messages of the failed end-of-run checks, in
\* the order the checks are made.
validate_final_state(p, route_last, m) ==
  (IF route_last # zeus_tile_id THEN <<"not_at_zeus">> ELSE <<>>)
  \o (IF ~all_tasks_completed(m.tasks) THEN <<"incomplete_tasks">> ELSE <<>>)
  \o (IF has_item(p, STATUE_ITEM) THEN <<"statue_left">> ELSE <<>>)
  \o (IF has_item(p, OFFERING_ITEM) THEN <<"offerings_left">> ELSE <<>>)
  \o (IF remaining_shrine_requirement(m) > 0 THEN <<"shrines_missing">> ELSE <<>>)

\* ------------------------------------------------------------------------
\* Specification Spec: RouteSimulator.simulate_route on any route
\* ------------------------------------------------------------------------
\* Shrine tiles of the drawn grid.
ShrineTiles(tt) == {t \in DOMAIN tt : tt[t] = "shrine"}

Init ==
  /\ tile_type \in SimGrids
  /\ colours = SimColours(tile_type)
  /\ zeus_tile_id = SimZeus
  /\ \E required \in {0, 1}, scheduled \in {<<>>, <<12>>} :
        /\ Range(scheduled) \subseteq ShrineTiles(tile_type)
        /\ tm = NewTaskManager(tile_type, colours, required, scheduled)
  /\ player = NewPlayerState(NoTile)
  /\ sim = [IdleSim EXCEPT !.pc = "start"]
  /\ exec_log = <<>>
  /\ last_call = NoCall
  /\ topo = IdleTopo
  /\ solver = IdleSolver

\* simulate_route up to its loop: an empty route (first = NoTile) and a route
\* that does not start at the hub return _error_result at once.
SimStart(first, shrine_positions) ==
  /\ sim.pc = "start"
  /\ IF first = NoTile
       THEN sim' = [sim EXCEPT !.pc = "done", !.errors = <<"empty_route">>]
     ELSE IF first # zeus_tile_id
       THEN sim' = [sim EXCEPT !.pc = "done", !.route_len = 1, !.route_last = first,
                               !.errors = <<"not_from_zeus">>]
     ELSE sim' = [sim EXCEPT !.pc = "loop", !.route_len = 1, !.route_last = first,
                             !.shrine_set = shrine_positions]
  /\ player' = IF first = zeus_tile_id /\ first # NoTile
                 THEN NewPlayerState(zeus_tile_id) ELSE player
  /\ UNCHANGED <<topo, solver, tile_type, colours, zeus_tile_id, tm, exec_log, last_call>>

\* One iteration of the loop of simulate_route: _simulate_step on the pair
\* (route[i-1], route[i]) with i = sim.route_len, then the bookkeeping.
SimStep(to_tile_id) ==
  /\ sim.pc = "loop"
  /\ sim.route_len <= MaxRoute
  /\ LET i == sim.route_len
         err == simulate_step_error(sim.route_last, to_tile_id)
     IN IF err # ""
          THEN /\ sim' = [sim EXCEPT
                            !.pc = "done", !.route_len = i + 1, !.route_last = to_tile_id,
                            !.steps = Append(@, "error"),
                            !.errors = Append(@, <<"step", i, err>>),
                            !.success = FALSE]
               /\ UNCHANGED <<player, tm, exec_log>>
          ELSE LET moved == execute_move(player, to_tile_id, 1)
                   t == check_and_execute_tasks(to_tile_id,
                          [tasks |-> tm.tasks, player |-> moved, raised |-> FALSE,
                           log |-> exec_log, acted |-> FALSE], i)
                   s == IF t.raised
                          THEN [player |-> t.player, tm |-> [tm EXCEPT !.tasks = t.tasks],
                                acted |-> FALSE]
                          ELSE check_and_build_shrines(neighbours[to_tile_id],
                                 [player |-> t.player, tm |-> [tm EXCEPT !.tasks = t.tasks],
                                  acted |-> FALSE], sim.shrine_set)
               IN /\ player' = s.player
                  /\ tm' = s.tm
                  /\ exec_log' = t.log
                  /\ sim' = [sim EXCEPT
                               !.pc = IF t.raised THEN "raised" ELSE "loop",
                               !.raised = t.raised,
                               !.route_len = i + 1, !.route_last = to_tile_id,
                               !.steps = Append(@, IF s.acted THEN "shrine"
                                                   ELSE IF t.acted THEN "task"
                                                   ELSE "move")]
  /\ UNCHANGED <<topo, solver, tile_type, colours, zeus_tile_id, last_call>>

\* The end of the run with the trace dropped when an end check fails.
SimFinish_dropping_trace ==
  /\ sim.pc = "loop"
  /\ LET msgs == validate_final_state(player, sim.route_last, tm)
     IN sim' = [sim EXCEPT !.pc = "done", !.errors = @ \o msgs,
                           !.steps = IF msgs = <<>> THEN @ ELSE <<>>,
                           !.success = (msgs = <<>>)]
  /\ UNCHANGED <<topo, solver, tile_type, colours, zeus_tile_id, tm, player, exec_log, last_call>>

\* The route is exhausted with no illegal move: _validate_final_state and
\* the SimulationResult.
SimFinish ==
  /\ sim.pc = "loop"
  /\ LET msgs == validate_final_state(player, sim.route_last, tm)
     IN sim' = [sim EXCEPT !.pc = "done", !.errors = @ \o msgs,
                           !.success = (msgs = <<>>)]
  /\ UNCHANGED <<topo, solver, tile_type, colours, zeus_tile_id, tm, player, exec_log, last_call>>

Next ==
  \/ \E first \in TileIds \cup {NoTile}, shrine_positions \in SUBSET {SimZeus, 12} :
        SimStart(first, shrine_positions)
  \/ \E to_tile_id \in TileIds \cup {NoTile} : SimStep(to_tile_id)
  \/ SimFinish

Spec == Init /\ [][Next]_vars

\* ------------------------------------------------------------------------
\* Properties of the simulator and of the task model
\* ------------------------------------------------------------------------
IsDelivery(id) == id[2] \in {"statue_island", "temple"}

PickupKind(id) == IF id[2] = "statue_island" THEN "statue_source" ELSE "offering"

\* Positions of exec_log that record the pickup matching the delivery id.
PickupEntries(id) ==
  {i \in DOMAIN exec_log : exec_log[i].id[2] = PickupKind(id)
                           /\ exec_log[i].id[3] = id[3]}

\* C3 as stated: every completed delivery (statue island, temple) was
\* executed while an item of its kind and colour was held, and its pickup was
\* completed at a strictly earlier step of the same run.
C3_DeliveryStrictlyAfterPickupStep ==
  /\ \A id \in player.completed_task_ids :
        IsDelivery(id) => \E j \in DOMAIN exec_log : exec_log[j].id = id
  /\ \A j \in DOMAIN exec_log :
        IsDelivery(exec_log[j].id) =>
          /\ exec_log[j].held
          /\ \E i \in PickupEntries(exec_log[j].id) :
                exec_log[i].step < exec_log[j].step

\* C3 amended: every completed delivery was executed while an item of its
\* kind and colour was held, after its pickup was executed in the same run,
\* at the same step or at a later one.
C3_DeliveryAfterPickup ==
  /\ \A id \in player.completed_task_ids :
        IsDelivery(id) => \E j \in DOMAIN exec_log : exec_log[j].id = id
  /\ \A j \in DOMAIN exec_log :
        IsDelivery(exec_log[j].id) =>
          /\ exec_log[j].held
          /\ \E i \in PickupEntries(exec_log[j].id) :
                i < j /\ exec_log[i].step <= exec_log[j].step

\* A delivery was executed at the step of its pickup, and another one at a
\* later step than its pickup.
C3_Witness ==
  /\ \E j \in DOMAIN exec_log :
        /\ IsDelivery(exec_log[j].id)
        /\ \E i \in PickupEntries(exec_log[j].id) : exec_log[i].step = exec_log[j].step
  /\ \E j \in DOMAIN exec_log :
        /\ IsDelivery(exec_log[j].id)
        /\ \E i \in PickupEntries(exec_log[j].id) : exec_log[i].step < exec_log[j].step

\* C4: in every state of a simulation the cargo holds at most 2 items.
C4_CargoAtMostTwo == Len(player.cargo) <= 2

\* The cargo is full and a pickup next to the boat, with its dependencies
\* met, is still pending: it was refused for lack of space.
C4_Witness ==
  /\ sim.pc = "loop"
  /\ Len(player.cargo) = 2
  /\ \E k \in DOMAIN tm.tasks :
        /\ tm.tasks[k].task_type \in {"offering", "statue_source"}
        /\ tm.tasks[k].status = "pending"
        /\ tm.tasks[k].tile_id \in Range(neighbours[player.current_tile_id])

IllegalPair(from_tile_id, to_tile_id) ==
  \/ to_tile_id \notin TileIds
  \/ to_tile_id \notin Range(neighbours[from_tile_id])
  \/ ~(tile_type[to_tile_id] = "water" \/ to_tile_id = zeus_tile_id)

\* C9: the first illegal route pair (step i) stops the simulation: nothing
\* moves or executes at step i or later, total_moves stays i-1, success is
\* false and the error names step i.
C9_IllegalMoveIsFatal ==
  [][ /\ (sim.pc = "loop" /\ sim'.route_len = sim.route_len + 1
          /\ IllegalPair(sim.route_last, sim'.route_last))
        => /\ sim'.pc = "done"
           /\ ~sim'.success
           /\ player' = player /\ tm' = tm /\ exec_log' = exec_log
           /\ player.total_moves = sim.route_len - 1
           /\ Len(sim'.errors) = 1
           /\ sim'.errors[1][1] = "step" /\ sim'.errors[1][2] = sim.route_len
           /\ Last(sim'.steps) = "error"
      /\ (sim.pc = "done") => UNCHANGED vars ]_vars

\* An illegal move at step 3 or later, after tasks were executed.
C9_Witness ==
  /\ sim.pc = "done"
  /\ sim.steps # <<>> /\ Last(sim.steps) = "error"
  /\ Len(sim.steps) >= 3
  /\ exec_log # <<>>
  /\ player.total_moves = Len(sim.steps) - 1

\* The run went through every route pair and reached the end-of-run checks.
ReachedFinalChecks ==
  /\ sim.pc = "done"
  /\ "error" \notin Range(sim.steps)
  /\ "empty_route" \notin Range(sim.errors)
  /\ "not_from_zeus" \notin Range(sim.errors)

\* C10: for a route from the hub with no illegal move, success is true
\* exactly when the route ends at the hub, every task is completed, the
\* cargo holds no statue and no offering and the shrine quota is met (as
\* many shrines built in the run as required); each failed check adds its
\* own message.
C10_SuccessIffAllChecksHold ==
  ReachedFinalChecks =>
    /\ sim.success <=>
         /\ sim.route_last = zeus_tile_id
         /\ \A k \in DOMAIN tm.tasks : tm.tasks[k].status = "completed"
         /\ \A k \in DOMAIN player.cargo :
               player.cargo[k].item_type \notin {STATUE_ITEM, OFFERING_ITEM}
         /\ Len(player.shrines_built) >= tm.required_shrine_count
    /\ ("not_at_zeus" \in Range(sim.errors)) <=> (sim.route_last # zeus_tile_id)
    /\ ("shrines_missing" \in Range(sim.errors))
         <=> (Len(player.shrines_built) < tm.required_shrine_count)

\* C11: whenever simulate_route returns success, the number of shrines
\* built in the run equals the configured quota; a shrine that is scheduled
\* but was never built does not count.
C11_SuccessMeansQuotaBuilt ==
  (sim.pc = "done" /\ sim.success) =>
    Len(player.shrines_built) = tm.required_shrine_count

\* The successful executions of a task recorded in the run.
Executions(task) == {j \in DOMAIN exec_log : exec_log[j].id = task.id}

\* C21: within a run a task is executed successfully at most max_uses
\* times; a completed task stays completed, is not executed again, and its
\* id is and stays in the completed-task set of the player.
C21_TaskCompletionOneShot ==
  /\ [](\A k \in DOMAIN tm.tasks :
          /\ Cardinality(Executions(tm.tasks[k])) <= tm.tasks[k].max_uses
          /\ Cardinality(Executions(tm.tasks[k])) = tm.tasks[k].uses_completed
          /\ tm.tasks[k].status = "completed" =>
                tm.tasks[k].id \in player.completed_task_ids)
  /\ [][\A k \in DOMAIN tm.tasks :
          tm.tasks[k].status = "completed" =>
             /\ tm'.tasks[k] = tm.tasks[k]
             /\ Executions(tm.tasks[k])' = Executions(tm.tasks[k])
             /\ tm.tasks[k].id \in player'.completed_task_ids]_vars

\* The boat made a further legal move next to the tile of a task it had
\* completed at an earlier step.
C21_Witness ==
  /\ sim.pc = "loop"
  /\ Len(sim.steps) >= 2
  /\ Last(sim.steps) # "error"
  /\ \E k \in DOMAIN tm.tasks :
        /\ tm.tasks[k].status = "completed"
        /\ tm.tasks[k].tile_id \in Range(neighbours[player.current_tile_id])
        /\ \E j \in Executions(tm.tasks[k]) : exec_log[j].step < Len(sim.steps)

\* ------------------------------------------------------------------------
\* cycle_dependencies.py : CycleDependencyAnalyzer
\* ------------------------------------------------------------------------
\* The cargo type ("statue:colour", "offering:colour") a task produces or
\* requires, as a pair.
cycle_produces(cycle) ==
  {<<STATUE_ITEM, t.colour>> : t \in {x \in cycle : x.task_type = "statue_source"}}
  \cup {<<OFFERING_ITEM, t.colour>> : t \in {x \in cycle : x.task_type = "offering"}}

cycle_requires(cycle) ==
  {<<STATUE_ITEM, t.colour>> : t \in {x \in cycle : x.task_type = "statue_island"}}
  \cup {<<OFFERING_ITEM, t.colour>> : t \in {x \in cycle : x.task_type = "temple"}}

\* Mutant: the edges point from the producer to the consumer.
analyze_dependencies_reversed(cycles) ==
  [cycle_idx \in DOMAIN cycles |->
     {consumer_idx \in DOMAIN cycles :
        /\ consumer_idx # cycle_idx
        /\ cycle_requires(cycles[consumer_idx]) \cap cycle_produces(cycles[cycle_idx]) # {}}]

\* analyze_dependencies: dependency_graph[i] = the cycles i depends on.
analyze_dependencies(cycles) ==
  [cycle_idx \in DOMAIN cycles |->
     {producer_idx \in DOMAIN cycles :
        /\ producer_idx # cycle_idx
        /\ cycle_requires(cycles[cycle_idx]) \cap cycle_produces(cycles[producer_idx]) # {}}]

\* The rounds of Kahn's algorithm: the batch is emitted in ascending index
\* order, then the in-degrees of its dependents drop; the cycles that
\* reach 0 form the next batch.
RECURSIVE kahn(_, _, _, _)
kahn(dependency_graph, in_degree, batch, sorted_indices) ==
  IF batch = {} THEN sorted_indices
  ELSE LET lowered == [i \in DOMAIN in_degree |->
                         in_degree[i] - Cardinality(dependency_graph[i] \cap batch)]
           ready == {i \in DOMAIN in_degree : lowered[i] = 0 /\ in_degree[i] > 0}
       IN kahn(dependency_graph, lowered, ready, sorted_indices \o SortedSeq(batch))

\* The result of Kahn's algorithm as it stands, complete or not.
topological_sort_unchecked(cycles) ==
  IF cycles = <<>> THEN <<>>
  ELSE LET dependency_graph == analyze_dependencies(cycles)
           in_degree == [i \in DOMAIN cycles |-> Cardinality(dependency_graph[i])]
       IN kahn(dependency_graph, in_degree,
               {i \in DOMAIN cycles : in_degree[i] = 0}, <<>>)

\* topological_sort: the cycle indices in result order (the original order
\* when Kahn's algorithm does not place every cycle).
topological_sort(cycles) ==
  IF cycles = <<>> THEN <<>>
  ELSE LET dependency_graph == analyze_dependencies(cycles)
           in_degree == [i \in DOMAIN cycles |-> Cardinality(dependency_graph[i])]
           sorted_indices == kahn(dependency_graph, in_degree,
                                  {i \in DOMAIN cycles : in_degree[i] = 0}, <<>>)
       IN IF Len(sorted_indices) # Len(cycles)
            THEN [i \in DOMAIN cycles |-> i]
            ELSE sorted_indices

\* ------------------------------------------------------------------------
\* Specification SpecTopo: topological_sort on any list of cycles
\* ------------------------------------------------------------------------
\* The statue pickups and deliveries of two colours and the offering pickup
\* and delivery of one (monsters take no part in the dependencies).
TopoTasks ==
  {[task_type |-> k, colour |-> c] :
     k \in {"statue_source", "statue_island"}, c \in {"pink", "blue"}}
  \cup {[task_type |-> k, colour |-> "pink"] : k \in {"offering", "temple"}}

\* Every task lies in exactly one cycle.
TopoInit ==
  /\ \E n \in 1..MaxCycles : \E place \in [TopoTasks -> 1..n] :
        topo = [pc |-> "ready",
                cycles |-> [i \in 1..n |-> {t \in TopoTasks : place[t] = i}],
                sorted |-> <<>>]
  /\ tile_type = <<>>
  /\ colours = <<>>
  /\ zeus_tile_id = NoTile
  /\ tm = NewTaskManager(<<>>, <<>>, 0, <<>>)
  /\ player = NewPlayerState(NoTile)
  /\ sim = IdleSim
  /\ exec_log = <<>>
  /\ last_call = NoCall
  /\ solver = IdleSolver

TopologicalSort ==
  /\ topo.pc = "ready"
  /\ topo' = [topo EXCEPT !.pc = "sorted", !.sorted = topological_sort(topo.cycles)]
  /\ UNCHANGED <<tile_type, colours, zeus_tile_id, tm, player, sim, exec_log,
                 last_call, solver>>

TopoNext == TopologicalSort

SpecTopo == TopoInit /\ [][TopoNext]_vars

\* Position of cycle i in the result.
PosInSorted(i) == CHOOSE k \in DOMAIN topo.sorted : topo.sorted[k] = i

\* In the list cycles, cycle i requires a cargo type that cycle j produces.
Requires(cycles, i, j) ==
  i # j /\ cycle_requires(cycles[i]) \cap cycle_produces(cycles[j]) # {}

\* Cycles reachable from the set S along "requires" edges, in at most n steps.
RECURSIVE ReachableFrom(_, _, _)
ReachableFrom(cycles, S, n) ==
  IF n = 0 THEN S
  ELSE ReachableFrom(cycles,
                     S \cup {j \in DOMAIN cycles : \E i \in S : Requires(cycles, i, j)},
                     n - 1)

\* Cycle i lies on a circular dependency.
OnCircularDependency(cycles, i) ==
  \E j \in DOMAIN cycles :
     Requires(cycles, i, j) /\ i \in ReachableFrom(cycles, {j}, Len(cycles))

Acyclic(cycles) == \A c \in DOMAIN cycles : ~OnCircularDependency(cycles, c)

IsPermutation(q, n) == Len(q) = n /\ Range(q) = 1..n

\* C7 as stated: in the result every producer cycle stands before every
\* other cycle that requires its cargo type, for all cycles that are not
\* part of a circular dependency.
C7_ProducerFirstOutsideCircles ==
  topo.pc = "sorted" =>
    /\ IsPermutation(topo.sorted, Len(topo.cycles))
    /\ \A i, j \in DOMAIN topo.cycles :
          (/\ Requires(topo.cycles, i, j)
           /\ ~OnCircularDependency(topo.cycles, i)
           /\ ~OnCircularDependency(topo.cycles, j))
            => PosInSorted(j) < PosInSorted(i)

\* C7 amended: when no cycle of the list lies on a circular dependency, every
\* producer cycle stands before every other cycle that requires its cargo
\* type.
C7_ProducerFirstWhenAcyclic ==
  (topo.pc = "sorted" /\ Acyclic(topo.cycles)) =>
    /\ IsPermutation(topo.sorted, Len(topo.cycles))
    /\ \A i, j \in DOMAIN topo.cycles :
          Requires(topo.cycles, i, j) => PosInSorted(j) < PosInSorted(i)

\* An acyclic list in which a consumer is listed before its producer was
\* sorted, and the result moved the producer to the front of the consumer.
C7_Witness ==
  /\ topo.pc = "sorted"
  /\ Acyclic(topo.cycles)
  /\ \E i, j \in DOMAIN topo.cycles :
        Requires(topo.cycles, i, j) /\ i < j /\ PosInSorted(j) < PosInSorted(i)

\* C25: topological_sort has a result for every list of cycles, and the
\* result is a permutation of the cycles it was given; when the cycles contain a circular dependency the
\* result is the list in its original order.
C25_SortIsPermutationAndCircularKeepsOrder ==
  /\ topo.pc = "ready" =>
       IsPermutation(topological_sort(topo.cycles), Len(topo.cycles))
  /\ topo.pc = "sorted" =>
       /\ IsPermutation(topo.sorted, Len(topo.cycles))
       /\ ~Acyclic(topo.cycles) =>
            topo.sorted = [i \in DOMAIN topo.cycles |-> i]

\* A list with a circular dependency was sorted, in which a cycle with no
\* dependencies is listed behind a cycle of the circular dependency.
C25_Witness ==
  /\ topo.pc = "sorted"
  /\ ~Acyclic(topo.cycles)
  /\ \E i, j \in DOMAIN topo.cycles :
        /\ i < j
        /\ OnCircularDependency(topo.cycles, i)
        /\ \A k \in DOMAIN topo.cycles : ~Requires(topo.cycles, j, k)

\* ------------------------------------------------------------------------
\* distance_utils.py : DistanceCalculator
\* ------------------------------------------------------------------------
\* get_shortest_distance returns None when there is no path.
NoPath == 0 - 1

\* _build_graphs: an edge of full_graph joins two neighbouring tiles of
\* which at least one is water; water_flags is the set of water tiles
\* recorded at construction.
full_graph_edge(water_flags, a, b) ==
  b \in Range(neighbours[a]) /\ (a \in water_flags \/ b \in water_flags)

\* _select_graph: the nodes of the graph used for a query, water_graph when
\* both ends are water and full_graph otherwise.
select_graph(water_flags, from_tile_id, to_tile_id) ==
  IF from_tile_id \in water_flags /\ to_tile_id \in water_flags
    THEN water_flags
    ELSE TileIds

\* Breadth-first levels around the target inside the selected graph.
RECURSIVE bfs_levels(_, _, _, _, _)
bfs_levels(water_flags, nodes, dist, frontier, k) ==
  IF frontier = {} THEN dist
  ELSE LET reached == {n \in nodes : dist[n] = NoPath
                                      /\ \E f \in frontier :
                                            full_graph_edge(water_flags, f, n)}
       IN bfs_levels(water_flags, nodes,
                     [n \in TileIds |-> IF n \in reached THEN k + 1 ELSE dist[n]],
                     reached, k + 1)

distances_to(water_flags, nodes, to_tile_id) ==
  bfs_levels(water_flags, nodes,
             [n \in TileIds |-> IF n = to_tile_id THEN 0 ELSE NoPath],
             {to_tile_id}, 0)

\* nx.shortest_path_length on the selected graph; NoPath for NetworkXNoPath.
shortest_path_length(water_flags, from_tile_id, to_tile_id) ==
  distances_to(water_flags, select_graph(water_flags, from_tile_id, to_tile_id),
               to_tile_id)[from_tile_id]

\* networkx leaves the choice among equally short paths to its search
\* order; the policy of a run picks the least or the greatest next tile.
TieBreaks == {"least", "greatest"}

RECURSIVE walk_path(_, _, _, _, _)
walk_path(water_flags, tiebreak, dist, current, to_tile_id) ==
  IF current = to_tile_id THEN <<current>>
  ELSE LET closer == {n \in TileIds : full_graph_edge(water_flags, current, n)
                                       /\ dist[n] = dist[current] - 1}
           step == IF tiebreak = "least" THEN Min(closer) ELSE Max(closer)
       IN <<current>> \o walk_path(water_flags, tiebreak, dist, step, to_tile_id)

\* nx.shortest_path on the selected graph: the tiles of a shortest path,
\* both ends included; <<>> stands for None (NetworkXNoPath).
shortest_path(water_flags, tiebreak, from_tile_id, to_tile_id) ==
  LET dist == distances_to(water_flags,
                           select_graph(water_flags, from_tile_id, to_tile_id),
                           to_tile_id)
  IN IF dist[from_tile_id] = NoPath THEN <<>>
     ELSE walk_path(water_flags, tiebreak, dist, from_tile_id, to_tile_id)

\* The calculator with its two caches.  The graphs never change after
\* construction, so the caches hold for every pair the entry the first
\* query would have stored.
DistanceCalculator(water_flags, tiebreak) ==
  [distance_cache |->
     [f \in TileIds |-> [t \in TileIds |-> shortest_path_length(water_flags, f, t)]],
   path_cache |->
     [f \in TileIds |-> [t \in TileIds |-> shortest_path(water_flags, tiebreak, f, t)]]]

\* The water tiles of the maps of the route specifications (tasks at 1, 3,
\* 5, 9 and 12, shrine at 8).
RouteWater == {2, 4, 6, 7, 10, 11}

\* The water tiles of every map that is routed: the maps above, and the
\* same maps with a further shrine at tile 4, at tile 11 or at both.
RoutedWaters == {RouteWater \ shrines : shrines \in SUBSET {4, 11}}

\* The calculators of those maps, one for each tie-break policy.
Calculators ==
  [water_flags \in RoutedWaters |->
     [tb \in TieBreaks |-> DistanceCalculator(water_flags, tb)]]

\* self.distance_calc of the solver and the optimizer of a run, built from
\* the map at construction.
distance_calc == Calculators[{t \in TileIds : is_water(t)}][solver.tiebreak]

get_shortest_distance(from_tile_id, to_tile_id) ==
  distance_calc.distance_cache[from_tile_id][to_tile_id]

get_shortest_path(from_tile_id, to_tile_id) ==
  distance_calc.path_cache[from_tile_id][to_tile_id]

\* find_nearest_water_tiles: the water neighbours of a tile, in list order.
find_nearest_water_tiles(task_tile_id) == get_adjacent_water_tiles(task_tile_id)

\* ------------------------------------------------------------------------
\* route_utils.py
\* ------------------------------------------------------------------------
\* Mutant: the path replaces the route instead of extending it.
append_path_replacing(route, path) == IF path = <<>> THEN route ELSE path

append_path(route, path) ==
  IF path = <<>> THEN route
  ELSE IF route # <<>> /\ Last(route) = path[1] THEN route \o Tail(path)
  ELSE route \o path

\* combine_detour: <<>> stands for None and for the empty detour alike (the
\* caller tests `not detour`).
combine_detour(to_path, from_path) ==
  IF to_path = <<>> \/ from_path = <<>> THEN <<>>
  ELSE Tail(to_path)
       \o (IF Len(from_path) > 1 THEN SubSeq(from_path, 2, Len(from_path) - 1)
           ELSE <<>>)

tiles_adjacent(first, second) == second \in Range(neighbours[first])

\* _reroute_via_water: the bridge to the first water neighbour of the land
\* tile that can be reached from the current tile.
reroute_via_water(route, current_tile, land_tile) ==
  With(SelectSeq(get_adjacent_water_tiles(land_tile),
                 LAMBDA n : get_shortest_path(current_tile, n) # <<>>),
       LAMBDA reachable :
         IF reachable = <<>> THEN [ok |-> FALSE, route |-> route]
         ELSE [ok |-> TRUE,
               route |-> append_path(route,
                                     get_shortest_path(current_tile, reachable[1]))])

\* The loop of repair_route from position k of the input on.
RECURSIVE repair_from(_, _, _)
repair_from(route, k, repaired) ==
  IF k > Len(route) THEN [route |-> repaired, raised |-> FALSE]
  ELSE LET next_tile == route[k]
           current_tile == Last(repaired)
       IN IF next_tile = current_tile THEN repair_from(route, k + 1, repaired)
          ELSE IF ~is_water(next_tile) /\ next_tile # zeus_tile_id
            THEN With(reroute_via_water(repaired, current_tile, next_tile),
                      LAMBDA rerouted :
                        IF rerouted.ok THEN repair_from(route, k + 1, rerouted.route)
                        ELSE [route |-> <<>>, raised |-> TRUE])
          ELSE IF tiles_adjacent(current_tile, next_tile)
            THEN repair_from(route, k + 1, Append(repaired, next_tile))
          ELSE With(get_shortest_path(current_tile, next_tile),
                    LAMBDA bridge :
                      IF bridge = <<>> THEN [route |-> <<>>, raised |-> TRUE]
                      ELSE repair_from(route, k + 1, append_path(repaired, bridge)))

\* repair_route: the repaired route, or raised (ValueError).
repair_route(route) ==
  IF route = <<>> THEN [route |-> <<>>, raised |-> FALSE]
  ELSE repair_from(route, 2, <<route[1]>>)

\* Mutant: the route is returned as it is.
ensure_return_to_zeus_skipped(route) == [route |-> route, raised |-> FALSE]

\* ensure_return_to_zeus: the route with the return leg, or raised.
ensure_return_to_zeus(route) ==
  IF route = <<>> \/ zeus_tile_id \notin TileIds \/ Last(route) = zeus_tile_id
    THEN [route |-> route, raised |-> FALSE]
  ELSE With(get_shortest_path(Last(route), zeus_tile_id),
            LAMBDA return_path :
              IF return_path = <<>> THEN [route |-> <<>>, raised |-> TRUE]
              ELSE [route |-> append_path(route, return_path), raised |-> FALSE])

\* ------------------------------------------------------------------------
\* The maps of the route specifications
\* ------------------------------------------------------------------------
TaskKinds == {"monster", "offering", "statue_source", "statue_island", "temple"}

\* On the 4 x 3 patch: task tiles at 1, 3, 5, 9 and 12, a shrine tile at 8,
\* connected water elsewhere.  Every land tile has a water neighbour, as
\* after ensure_task_accessibility.
\*      T   .   T   .
\*        T   .   .   S
\*      T   .   .   T
RouteAllowedTypes ==
  << TaskKinds, {"water"}, TaskKinds, {"water"},
     TaskKinds, {"water"}, {"water"}, {"shrine"},
     TaskKinds, {"water"}, {"water"}, TaskKinds >>

\* One tile of each task kind.
RouteGrids ==
  {tt \in SeqProduct(RouteAllowedTypes) :
     \A kind \in TaskKinds : Cardinality({t \in TileIds : tt[t] = kind}) = 1}

\* Every task tile carries the three colours.
RouteColours(tt) ==
  [t \in TileIds |-> IF tt[t] \in TaskKinds THEN Range(selected_colours) ELSE {}]

\* The hub is the land tile 1 or the water tile 2.
RouteHubs == {1, 2}

\* All sequences over S of length at most n.
RECURSIVE SeqsUpTo(_, _)
SeqsUpTo(S, n) ==
  IF n = 0 THEN {<<>>}
  ELSE LET shorter == SeqsUpTo(S, n - 1)
       IN shorter \cup {Append(q, x) : q \in shorter, x \in S}

\* ------------------------------------------------------------------------
\* Specification SpecRepair: repair_route applied twice
\* ------------------------------------------------------------------------
RepairGrids ==
  {tt \in RouteGrids : tt[1] = "monster" /\ tt[3] = "offering"
                       /\ tt[5] = "statue_source" /\ tt[9] = "statue_island"}

\* The input route starts at the hub and goes on with any tiles.
RepairInit ==
  /\ tile_type \in RepairGrids
  /\ colours = RouteColours(tile_type)
  /\ zeus_tile_id \in RouteHubs
  /\ tm = NewTaskManager(tile_type, colours, 0, <<>>)
  /\ player = NewPlayerState(NoTile)
  /\ sim = IdleSim
  /\ exec_log = <<>>
  /\ last_call = NoCall
  /\ topo = IdleTopo
  /\ \E tb \in TieBreaks : \E rest \in SeqsUpTo(TileIds, MaxRepairLen) :
        solver = [pc |-> "input", tiebreak |-> tb,
                  route |-> <<zeus_tile_id>> \o rest,
                  raised |-> FALSE, first |-> <<>>, second |-> <<>>]

RepairRoute ==
  /\ solver.pc = "input"
  /\ LET result == repair_route(solver.route)
     IN solver' = [solver EXCEPT !.pc = "repaired", !.raised = result.raised,
                                 !.first = result.route]
  /\ UNCHANGED <<tile_type, colours, zeus_tile_id, tm, player, sim, exec_log,
                 last_call, topo>>

RepairAgain ==
  /\ solver.pc = "repaired"
  /\ ~solver.raised
  /\ LET result == repair_route(solver.first)
     IN solver' = [solver EXCEPT !.pc = "repaired_again", !.raised = result.raised,
                                 !.second = result.route]
  /\ UNCHANGED <<tile_type, colours, zeus_tile_id, tm, player, sim, exec_log,
                 last_call, topo>>

RepairNext == RepairRoute \/ RepairAgain

SpecRepair == RepairInit /\ [][RepairNext]_vars

\* C8: whenever repair_route returned a route r, repair_route(r) returns a
\* route identical to r.
C8_RepairIdempotent ==
  solver.pc = "repaired_again" => (~solver.raised /\ solver.second = solver.first)

\* The same, on maps whose hub is a water tile.
RepairIdempotentWaterHub ==
  (solver.pc = "repaired_again" /\ is_water(zeus_tile_id))
     => (~solver.raised /\ solver.second = solver.first)

\* ------------------------------------------------------------------------
\* heuristic.py : CycleHeuristic
\* ------------------------------------------------------------------------
CYCLE_DISTANCE_THRESHOLD == 6
MAX_CYCLE_TASKS == 8

\* An index that is None.
NoIndex == 0 - 1

Abs(x) == IF x < 0 THEN 0 - x ELSE x

\* The Python slice s[a:b] of 0-based positions a .. b-1.
slice(s, a, b) == SubSeq(s, a + 1, Min({b, Len(s)}))

\* unique_tasks: the task tiles in the order of their first task.
deduplicated_tasks(tasks) ==
  LET firsts == SelectSeq([k \in DOMAIN tasks |-> k],
                          LAMBDA k : \A j \in 1..(k - 1) :
                                        tasks[j].tile_id # tasks[k].tile_id)
  IN [i \in DOMAIN firsts |-> tasks[firsts[i]].tile_id]

\* tasks_by_tile[tile]: the tasks of a tile in dict order.
tasks_by_tile(tasks, tile) == SelectSeq(tasks, LAMBDA t : t.tile_id = tile)

RECURSIVE FlattenSeq(_)
FlattenSeq(ss) == IF ss = <<>> THEN <<>> ELSE Head(ss) \o FlattenSeq(Tail(ss))

\* _task_land_distance: Manhattan distance of the coordinates the grid
\* stores for the two tiles.
task_land_distance(coords, first_tile_id, second_tile_id) ==
  IF first_tile_id = second_tile_id THEN 0
  ELSE Abs(coords[first_tile_id][1] - coords[second_tile_id][1])
       + Abs(coords[first_tile_id][2] - coords[second_tile_id][2])

\* The seeds taken in index order, whatever the distances.
RECURSIVE pick_seeds_in_order(_, _, _, _, _)
pick_seeds_in_order(coords, tiles, seeds, remaining, target_clusters) ==
  IF Len(seeds) >= target_clusters \/ remaining = {} THEN seeds
  ELSE pick_seeds_in_order(coords, tiles, Append(seeds, Min(remaining)),
                           remaining \ {Min(remaining)}, target_clusters)

\* Farthest-point seeds: the candidate with the greatest least distance to
\* the seeds so far, the lowest index on a tie.
RECURSIVE pick_seeds(_, _, _, _, _)
pick_seeds(coords, tiles, seeds, remaining, target_clusters) ==
  IF Len(seeds) >= target_clusters \/ remaining = {} THEN seeds
  ELSE LET min_dist_to_seeds(c) ==
             Min({task_land_distance(coords, tiles[c], tiles[seeds[k]]) :
                    k \in DOMAIN seeds})
           best_min_dist == Max({min_dist_to_seeds(c) : c \in remaining})
           best_candidate == Min({c \in remaining : min_dist_to_seeds(c) = best_min_dist})
       IN pick_seeds(coords, tiles, Append(seeds, best_candidate),
                     remaining \ {best_candidate}, target_clusters)

\* The assignment with no limit on the size of a cluster.
RECURSIVE assign_tasks_uncapped(_, _, _, _, _)
assign_tasks_uncapped(coords, tiles, seeds, clusters, todo) ==
  IF todo = <<>> THEN clusters
  ELSE LET task_idx == Head(todo)
           min_dist_to_cluster(k) ==
             Min({task_land_distance(coords, tiles[task_idx], tiles[clusters[k][m]]) :
                    m \in DOMAIN clusters[k]})
           open == {k \in DOMAIN seeds :
                      min_dist_to_cluster(k) <= CYCLE_DISTANCE_THRESHOLD}
       IN IF open = {}
            THEN assign_tasks_uncapped(coords, tiles, seeds,
                                       Append(clusters, <<task_idx>>), Tail(todo))
          ELSE LET best_min_dist == Min({min_dist_to_cluster(k) : k \in open})
                   nearest == {k \in open : min_dist_to_cluster(k) = best_min_dist}
                   best_cluster == CHOOSE k \in nearest :
                                      \A j \in nearest : seeds[k] <= seeds[j]
               IN assign_tasks_uncapped(coords, tiles, seeds,
                               [k \in DOMAIN clusters |->
                                  IF k = best_cluster THEN Append(clusters[k], task_idx)
                                  ELSE clusters[k]],
                               Tail(todo))

\* Assignment of the other tasks: the nearest seed cluster that is not full
\* and within the threshold (lowest seed on a tie), else a new cluster.
RECURSIVE assign_tasks(_, _, _, _, _)
assign_tasks(coords, tiles, seeds, clusters, todo) ==
  IF todo = <<>> THEN clusters
  ELSE LET task_idx == Head(todo)
           min_dist_to_cluster(k) ==
             Min({task_land_distance(coords, tiles[task_idx], tiles[clusters[k][m]]) :
                    m \in DOMAIN clusters[k]})
           open == {k \in DOMAIN seeds :
                      /\ Len(clusters[k]) < MAX_CYCLE_TASKS
                      /\ min_dist_to_cluster(k) <= CYCLE_DISTANCE_THRESHOLD}
       IN IF open = {}
            THEN assign_tasks(coords, tiles, seeds, Append(clusters, <<task_idx>>),
                              Tail(todo))
          ELSE LET best_min_dist == Min({min_dist_to_cluster(k) : k \in open})
                   nearest == {k \in open : min_dist_to_cluster(k) = best_min_dist}
                   best_cluster == CHOOSE k \in nearest :
                                      \A j \in nearest : seeds[k] <= seeds[j]
               IN assign_tasks(coords, tiles, seeds,
                               [k \in DOMAIN clusters |->
                                  IF k = best_cluster THEN Append(clusters[k], task_idx)
                                  ELSE clusters[k]],
                               Tail(todo))

\* The seeds of _cluster_tasks_by_proximity, as positions of the task list.
cluster_seeds(coords, tiles) ==
  pick_seeds(coords, tiles, <<1>>, 2..Len(tiles),
             Max({2, (Len(tiles) + 3) \div 4}))

\* The clusters of _cluster_tasks_by_proximity in dict order, as positions
\* of the task list: the seed clusters first.
cluster_indices(coords, tiles) ==
  assign_tasks(coords, tiles, cluster_seeds(coords, tiles),
               [k \in DOMAIN cluster_seeds(coords, tiles) |->
                  <<cluster_seeds(coords, tiles)[k]>>],
               SortedSeq((1..Len(tiles)) \ Range(cluster_seeds(coords, tiles))))

\* _cluster_tasks_by_proximity on the task tiles of a grid with the given
\* coordinates: the clusters, each a sequence of task tiles.
clusters_by_proximity(coords, tiles) ==
  IF tiles = <<>> THEN <<>>
  ELSE With(cluster_indices(coords, tiles), LAMBDA clusters :
         [k \in DOMAIN clusters |->
            [m \in DOMAIN clusters[k] |-> tiles[clusters[k][m]]]])

\* _cluster_tasks_by_proximity on the 4 x 3 patch.
cluster_tasks_by_proximity(tiles) == clusters_by_proximity(Coords, tiles)

\* _adjacent_water_ids: the sorted water neighbours of a tile.
adjacent_water_ids(tile_id) ==
  SortedSeq({n \in Range(neighbours[tile_id]) : is_water(n)})

\* _best_path_to_task: the shortest of the paths to the water neighbours of
\* the task tile, the lowest neighbour on a tie; <<>> when there is none.
best_path_to_task(current_tile, task_tile) ==
  With([c \in Range(adjacent_water_ids(task_tile)) |->
          get_shortest_path(current_tile, c)],
       LAMBDA path :
         LET candidates == {c \in DOMAIN path : path[c] # <<>>}
             best_len == Min({Len(path[c]) : c \in candidates})
         IN IF candidates = {} THEN <<>>
            ELSE path[Min({c \in candidates : Len(path[c]) = best_len})])

\* The pending task tile with the shortest approach, the first in dict
\* order on a tie; NoTile when none can be approached.
closest_pending(current_tile, pending) ==
  With([k \in DOMAIN pending |-> best_path_to_task(current_tile, pending[k])],
       LAMBDA path :
         LET reachable == {k \in DOMAIN pending : path[k] # <<>>}
             best_dist == Min({Len(path[k]) : k \in reachable})
         IN IF reachable = {} THEN NoTile
            ELSE pending[Min({k \in reachable : Len(path[k]) = best_dist})])

RemoveTile(pending, tile) == SelectSeq(pending, LAMBDA t : t # tile)

\* The `while pending` loop of _build_route_with_cycles.
RECURSIVE visit_pending(_, _, _)
visit_pending(route, pending, visited_tasks) ==
  With(closest_pending(Last(route), pending),
       LAMBDA best_task :
         IF pending = <<>> \/ best_task = NoTile
           THEN [route |-> route, visited_tasks |-> visited_tasks]
         ELSE visit_pending(append_path(route,
                                        best_path_to_task(Last(route), best_task)),
                            RemoveTile(pending, best_task),
                            Append(visited_tasks, best_task)))

NewTaskCycle(cycle_tasks, entry_index, exit_index, internal_route, entry_tile, exit_tile, total_distance) ==
  [tasks |-> cycle_tasks, entry_index |-> entry_index, exit_index |-> exit_index,
   internal_route |-> internal_route, connector_to_next |-> <<>>,
   entry_tile |-> entry_tile, exit_tile |-> exit_tile,
   total_distance |-> total_distance]

\* get_task_tile_ids
get_task_tile_ids(cycle) == [k \in DOMAIN cycle.tasks |-> cycle.tasks[k].tile_id]

\* The loop over the clusters of _build_route_with_cycles; indices are the
\* 0-based positions of the source.
RECURSIVE route_clusters(_, _, _, _)
route_clusters(tasks, task_clusters, route, cycles) ==
  IF task_clusters = <<>> THEN [route |-> route, cycles |-> cycles]
  ELSE With(closest_pending(Last(route), Head(task_clusters)),
            LAMBDA entry_task :
    IF entry_task = NoTile
      THEN route_clusters(tasks, Tail(task_clusters), route, cycles)
    ELSE With(Len(append_path(route, best_path_to_task(Last(route), entry_task))) - 1,
              LAMBDA cycle_entry_idx :
      With(visit_pending(append_path(route, best_path_to_task(Last(route), entry_task)),
                         RemoveTile(Head(task_clusters), entry_task),
                         <<entry_task>>),
           LAMBDA done :
        LET cycle_exit_idx == Len(done.route) - 1
        IN route_clusters(
             tasks, Tail(task_clusters), done.route,
             Append(IF cycles = <<>> THEN cycles
                    ELSE [cycles EXCEPT ![Len(cycles)].connector_to_next =
                            slice(done.route, cycles[Len(cycles)].exit_index,
                                  cycle_entry_idx + 1)],
                    NewTaskCycle(FlattenSeq([k \in DOMAIN done.visited_tasks |->
                                               tasks_by_tile(tasks, done.visited_tasks[k])]),
                                 cycle_entry_idx, cycle_exit_idx,
                                 slice(done.route, cycle_entry_idx, cycle_exit_idx + 1),
                                 done.route[cycle_entry_idx + 1],
                                 done.route[cycle_exit_idx + 1],
                                 cycle_exit_idx - cycle_entry_idx))))))

\* _build_route_with_cycles
build_route_with_cycles(tasks, start_tile) ==
  route_clusters(tasks, cluster_tasks_by_proximity(deduplicated_tasks(tasks)),
                 <<start_tile>>, <<>>)

\* The first 0-based index of the tile, wherever the search starts.
locate_tile_anywhere(route, tile_id, start) ==
  LET hits == {i \in 0..(Len(route) - 1) : route[i + 1] = tile_id}
  IN IF tile_id = NoTile \/ hits = {} THEN NoIndex ELSE Min(hits)

\* _locate_tile: the first 0-based index of the tile at or after start.
locate_tile(route, tile_id, start) ==
  LET hits == {i \in Max({0, start})..(Len(route) - 1) : route[i + 1] = tile_id}
  IN IF tile_id = NoTile \/ hits = {} THEN NoIndex ELSE Min(hits)

\* _find_task_index: the first index (last when reverse) at or after start
\* whose tile is a task tile of the cycle or a neighbour of one.
find_task_index(route, cycle, start, reverse) ==
  LET task_ids == Range(get_task_tile_ids(cycle))
      hits == {i \in Max({0, start})..(Len(route) - 1) :
                 \/ route[i + 1] \in task_ids
                 \/ \E task_tile \in task_ids : task_tile \in Range(neighbours[route[i + 1]])}
  IN IF hits = {} THEN NoIndex ELSE IF reverse THEN Max(hits) ELSE Min(hits)

\* The loop of _realign_cycles_to_route from cycle idx on.
RECURSIVE realign_from(_, _, _, _)
realign_from(route, cycles, idx, search_start) ==
  IF idx > Len(cycles) THEN cycles
  ELSE With(With(locate_tile(route, cycles[idx].entry_tile, search_start),
                 LAMBDA located :
                   IF located # NoIndex THEN located
                   ELSE find_task_index(route, cycles[idx], search_start, FALSE)),
            LAMBDA entry_idx :
    IF entry_idx = NoIndex
      THEN realign_from(route,
                        [cycles EXCEPT ![idx].entry_index = NoIndex,
                                       ![idx].exit_index = NoIndex,
                                       ![idx].internal_route = <<>>],
                        idx + 1, search_start)
    ELSE With(With(With(locate_tile(route, cycles[idx].exit_tile, entry_idx),
                        LAMBDA exit_located :
                          IF exit_located # NoIndex THEN exit_located
                          ELSE find_task_index(route, cycles[idx], entry_idx, TRUE)),
                   LAMBDA exit_found :
                     IF exit_found = NoIndex \/ exit_found < entry_idx
                       THEN entry_idx ELSE exit_found),
              LAMBDA exit_idx :
      LET internal_route == slice(route, entry_idx, exit_idx + 1)
      IN realign_from(route,
                      [cycles EXCEPT ![idx].entry_index = entry_idx,
                                     ![idx].exit_index = exit_idx,
                                     ![idx].internal_route = internal_route,
                                     ![idx].total_distance =
                                        Max({0, Len(internal_route) - 1})],
                      idx + 1, exit_idx)))

\* _realign_cycles_to_route
realign_cycles_to_route(route, cycles) ==
  IF route = <<>> \/ cycles = <<>> THEN cycles
  ELSE realign_from(route, cycles, 1, 0)

\* _calculate_statistics
calculate_statistics(route, cycles) ==
  LET total_moves == Max({0, Len(route) - 1})
  IN [total_moves |-> total_moves,
      total_turns |-> (total_moves + 2) \div 3,
      route_length |-> Len(route),
      cycles_formed |-> Len(cycles),
      tasks_per_cycle |-> [k \in DOMAIN cycles |-> Len(cycles[k].tasks)],
      cycle_distances |-> [k \in DOMAIN cycles |-> cycles[k].total_distance]]

NoStats == calculate_statistics(<<>>, <<>>)

\* A solver call that raised: no route is returned. stored tells whether
\* self.cycles was assigned before the raise; error is the ValueError.
SolveRaised == [route |-> <<>>, cycles |-> <<>>, stats |-> NoStats, raised |-> TRUE, stored |-> FALSE, error |-> <<"route">>]

\* A raise of the repair steps, after `self.cycles = cycles`.
RepairRaised(cycles) == [SolveRaised EXCEPT !.cycles = cycles, !.stored = TRUE]

\* The tail shared by solve and solve_with_custom_cycles: repair, return
\* leg, repair; <<>> when one of them raises.
finalize_route(route) ==
  With(With(repair_route(route),
            LAMBDA first :
              IF first.raised THEN first ELSE ensure_return_to_zeus(first.route)),
       LAMBDA returned :
         IF returned.raised THEN returned ELSE repair_route(returned.route))

\* solve: route, realigned cycles and statistics, or raised.
solve(tasks) ==
  IF tasks = <<>>
    THEN [route |-> <<zeus_tile_id>>, cycles |-> <<>>,
          stats |-> calculate_statistics(<<zeus_tile_id>>, <<>>), raised |-> FALSE,
          stored |-> FALSE, error |-> <<>>]
  ELSE With(build_route_with_cycles(tasks, zeus_tile_id), LAMBDA built :
         With(finalize_route(built.route), LAMBDA repaired :
           IF repaired.raised THEN RepairRaised(built.cycles)
           ELSE With(realign_cycles_to_route(repaired.route, built.cycles),
                     LAMBDA cycles :
                       [route |-> repaired.route, cycles |-> cycles,
                        stats |-> calculate_statistics(repaired.route, cycles),
                        raised |-> FALSE, stored |-> TRUE, error |-> <<>>])))

\* A dict keyed by the elements keeps the first position of each.
DedupSeq(q) ==
  LET firsts == SelectSeq([k \in DOMAIN q |-> k],
                          LAMBDA k : \A j \in 1..(k - 1) : q[j] # q[k])
  IN [i \in DOMAIN firsts |-> q[firsts[i]]]

\* task_by_tile[tile]: the last task created on the tile.
task_by_tile(tasks, tile) == Last(tasks_by_tile(tasks, tile))

\* The `while pending` loop of solve_with_custom_cycles: the position moves
\* on to the task tile itself.
RECURSIVE custom_visit(_, _, _, _)
custom_visit(route, current_tile, pending, visited_tasks) ==
  With(closest_pending(current_tile, pending),
       LAMBDA best_task :
         IF pending = <<>> \/ best_task = NoTile
           THEN [route |-> route, current_tile |-> current_tile,
                 visited_tasks |-> visited_tasks]
         ELSE custom_visit(route \o Tail(best_path_to_task(current_tile, best_task)),
                           best_task, RemoveTile(pending, best_task),
                           Append(visited_tasks, best_task)))

\* The loop over the custom clusters.
RECURSIVE custom_clusters(_, _, _, _, _)
custom_clusters(tasks, task_clusters, route, current_tile, cycles) ==
  IF task_clusters = <<>> THEN [route |-> route, cycles |-> cycles]
  ELSE With(custom_visit(route, current_tile, DedupSeq(Head(task_clusters)), <<>>),
            LAMBDA done :
    LET cycle_entry_idx == Len(route) - 1
        cycle_exit_idx == Len(done.route) - 1
    IN custom_clusters(
         tasks, Tail(task_clusters), done.route, done.current_tile,
         Append(cycles,
                NewTaskCycle([k \in DOMAIN done.visited_tasks |->
                                task_by_tile(tasks, done.visited_tasks[k])],
                             cycle_entry_idx, cycle_exit_idx,
                             slice(done.route, cycle_entry_idx, cycle_exit_idx + 1),
                             NoTile, NoTile, 0))))

\* The connectors between consecutive custom cycles, cut from the repaired
\* route at the indices recorded before the repair.
add_connectors(cycles, repaired_route) ==
  [i \in DOMAIN cycles |->
     IF i < Len(cycles) /\ cycles[i].exit_index < cycles[i + 1].entry_index
       THEN [cycles[i] EXCEPT !.connector_to_next =
               slice(repaired_route, cycles[i].exit_index,
                     cycles[i + 1].entry_index + 1)]
       ELSE cycles[i]]

\* The first listed tile, in the order of the two loops, that is not a key
\* of task_by_tile; NoTile when every listed tile carries a selected task.
foreign_tile_first_listed(tasks, cycle_tile_ids) ==
  LET listed == FlattenSeq(cycle_tile_ids)
  IN IF \A k \in DOMAIN listed :
          listed[k] \in {tasks[j].tile_id : j \in DOMAIN tasks}
       THEN NoTile
     ELSE listed[1]

foreign_tile(tasks, cycle_tile_ids) ==
  LET listed == FlattenSeq(cycle_tile_ids)
      foreign == {k \in DOMAIN listed :
                    listed[k] \notin {tasks[j].tile_id : j \in DOMAIN tasks}}
  IN IF foreign = {} THEN NoTile ELSE listed[Min(foreign)]

\* solve_with_custom_cycles: raised, naming the tile, when a listed tile
\* carries no task; raised when a repair step fails. Without clusters the
\* hub alone is returned and self.cycles is not assigned.
solve_with_custom_cycles(tasks, cycle_tile_ids) ==
  LET task_clusters == SelectSeq(cycle_tile_ids, LAMBDA cluster : cluster # <<>>)
  IN IF foreign_tile(tasks, cycle_tile_ids) # NoTile
       THEN [SolveRaised EXCEPT
               !.error = <<"not a task tile", foreign_tile(tasks, cycle_tile_ids)>>]
     ELSE IF task_clusters = <<>>
       THEN [route |-> <<zeus_tile_id>>, cycles |-> <<>>,
             stats |-> calculate_statistics(<<zeus_tile_id>>, <<>>), raised |-> FALSE,
             stored |-> FALSE, error |-> <<>>]
     ELSE With(custom_clusters(tasks, task_clusters, <<zeus_tile_id>>,
                               zeus_tile_id, <<>>),
               LAMBDA built :
       With(finalize_route(built.route), LAMBDA repaired :
         IF repaired.raised THEN RepairRaised(built.cycles)
         ELSE With(realign_cycles_to_route(
                     repaired.route, add_connectors(built.cycles, repaired.route)),
                   LAMBDA cycles :
                     [route |-> repaired.route, cycles |-> cycles,
                      stats |-> calculate_statistics(repaired.route, cycles),
                      raised |-> FALSE, stored |-> TRUE, error |-> <<>>])))

\* ------------------------------------------------------------------------
\* tasks.py : shrine bookkeeping used by the optimizer
\* ------------------------------------------------------------------------
\* get_shrine_candidates: shrine tiles that carry no task and are neither
\* scheduled nor built, in grid order.
get_shrine_candidates(m) ==
  LET excluded == {m.tasks[k].tile_id : k \in DOMAIN m.tasks}
                  \cup Range(m.scheduled_shrines) \cup m.completed_shrines
  IN SortedSeq({t \in TileIds : tile_type[t] = "shrine" /\ t \notin excluded})

RECURSIVE register_scheduled_shrines(_, _)
register_scheduled_shrines(m, shrine_ids) ==
  IF shrine_ids = <<>> THEN m
  ELSE register_scheduled_shrines(
         IF Head(shrine_ids) \in Range(m.scheduled_shrines) THEN m
         ELSE [m EXCEPT !.scheduled_shrines = Append(@, Head(shrine_ids))],
         Tail(shrine_ids))

\* ------------------------------------------------------------------------
\* shrine_logic.py, shrine_models.py
\* ------------------------------------------------------------------------
ShrineOpportunity(shrine_tile_id, route_position, detour_cost, wasted_moves_used) ==
  [shrine_tile_id |-> shrine_tile_id, route_position |-> route_position,
   detour_cost |-> detour_cost, wasted_moves_used |-> wasted_moves_used]

\* efficiency_score(a) > efficiency_score(b); a zero detour scores infinity.
more_efficient(a, b) ==
  IF a.detour_cost = 0 THEN b.detour_cost # 0
  ELSE b.detour_cost # 0
       /\ a.wasted_moves_used * b.detour_cost > b.wasted_moves_used * a.detour_cost

\* The opportunities of one route step (0-based index) in creation order.
step_opportunities(route, shrine_candidates, index) ==
  LET current_pos == route[index + 1]
      next_pos == route[index + 2]
      moves_to_next == get_shortest_distance(current_pos, next_pos)
      remaining_moves == 3 - ((index % 3) + 1)
      wasted_moves == remaining_moves - moves_to_next
      fits(water_pos) ==
        LET to_shrine == get_shortest_distance(current_pos, water_pos)
            from_shrine == get_shortest_distance(water_pos, next_pos)
        IN /\ to_shrine # NoPath
           /\ from_shrine # NoPath
           /\ to_shrine + from_shrine - moves_to_next <= wasted_moves
      opportunity(shrine, water_pos) ==
        LET to_shrine == get_shortest_distance(current_pos, water_pos)
            from_shrine == get_shortest_distance(water_pos, next_pos)
        IN ShrineOpportunity(shrine, index,
                             Max({0, to_shrine + from_shrine - moves_to_next}),
                             Min({wasted_moves, to_shrine + from_shrine}))
      of_shrine(shrine) ==
        LET access == SelectSeq(find_nearest_water_tiles(shrine), fits)
        IN [k \in DOMAIN access |-> opportunity(shrine, access[k])]
  IN IF moves_to_next = NoPath \/ remaining_moves <= moves_to_next THEN <<>>
     ELSE FlattenSeq([k \in DOMAIN shrine_candidates |-> of_shrine(shrine_candidates[k])])

find_shrine_opportunities(route, shrine_candidates) ==
  FlattenSeq([i \in 1..(Len(route) - 1) |->
                step_opportunities(route, shrine_candidates, i - 1)])

\* list.sort(key=efficiency_score, reverse=True): stable, best first.
RECURSIVE sort_by_efficiency(_)
sort_by_efficiency(opportunities) ==
  IF opportunities = <<>> THEN <<>>
  ELSE LET sorted_front == sort_by_efficiency(SubSeq(opportunities, 1,
                                                      Len(opportunities) - 1))
           x == Last(opportunities)
           keep == {k \in DOMAIN sorted_front : ~more_efficient(x, sorted_front[k])}
           at == IF keep = {} THEN 0 ELSE Max(keep)
       IN SubSeq(sorted_front, 1, at) \o <<x>>
          \o SubSeq(sorted_front, at + 1, Len(sorted_front))

\* The selection loop of select_optimal_shrines.
RECURSIVE select_from(_, _, _)
select_from(opportunities, max_shrines, selected) ==
  IF opportunities = <<>> \/ Len(selected) >= max_shrines THEN selected
  ELSE LET opportunity == Head(opportunities)
           clash == \E k \in DOMAIN selected :
                       \/ selected[k].shrine_tile_id = opportunity.shrine_tile_id
                       \/ selected[k].route_position = opportunity.route_position
       IN select_from(Tail(opportunities), max_shrines,
                      IF clash THEN selected ELSE Append(selected, opportunity))

select_optimal_shrines(opportunities, max_shrines) ==
  select_from(sort_by_efficiency(opportunities), max_shrines, <<>>)

\* sorted(key=route_position, reverse=True): stable, highest position first.
RECURSIVE sort_by_position(_)
sort_by_position(opportunities) ==
  IF opportunities = <<>> THEN <<>>
  ELSE LET sorted_front == sort_by_position(SubSeq(opportunities, 1,
                                                    Len(opportunities) - 1))
           x == Last(opportunities)
           keep == {k \in DOMAIN sorted_front :
                      sorted_front[k].route_position >= x.route_position}
           at == IF keep = {} THEN 0 ELSE Max(keep)
       IN SubSeq(sorted_front, 1, at) \o <<x>>
          \o SubSeq(sorted_front, at + 1, Len(sorted_front))

\* The loop of insert_shrines_into_route.
RECURSIVE insert_from(_, _, _)
insert_from(opportunities, new_route, shrine_positions) ==
  IF opportunities = <<>>
    THEN [route |-> new_route, shrine_positions |-> shrine_positions]
  ELSE LET opportunity == Head(opportunities)
           pos == opportunity.route_position
           shrine_water == find_nearest_water_tiles(opportunity.shrine_tile_id)
           best_water_pos == shrine_water[1]
       IN IF shrine_water = <<>>
            THEN insert_from(Tail(opportunities), new_route, shrine_positions)
          ELSE With(combine_detour(
                      get_shortest_path(new_route[pos + 1], best_water_pos),
                      get_shortest_path(best_water_pos, new_route[pos + 2])),
                    LAMBDA detour :
                      IF detour = <<>>
                        THEN insert_from(Tail(opportunities), new_route,
                                         shrine_positions)
                      ELSE insert_from(Tail(opportunities),
                                       SubSeq(new_route, 1, pos + 1) \o detour
                                         \o SubSeq(new_route, pos + 2, Len(new_route)),
                                       Append(shrine_positions,
                                              opportunity.shrine_tile_id)))

insert_shrines_into_route(route, shrine_opportunities) ==
  insert_from(sort_by_position(shrine_opportunities), route, <<>>)

\* float("inf"): no distance on the map reaches the number of its tiles.
inf_distance == Len(Coords)

\* `distance or float("inf")`: None and 0 both count as infinite.
distance_or_inf(from_tile_id, to_tile_id) ==
  LET distance == get_shortest_distance(from_tile_id, to_tile_id)
  IN IF distance = NoPath \/ distance = 0 THEN inf_distance ELSE distance

\* One entry of `ranked`: the shrine, its least distance from the end of
\* the route and the first water neighbour at that distance.
rank_shrine(end_position, shrine) ==
  With([k \in DOMAIN find_nearest_water_tiles(shrine) |->
          distance_or_inf(end_position, find_nearest_water_tiles(shrine)[k])],
       LAMBDA distance :
         LET dist == Min(Range(distance))
             first == Min({k \in DOMAIN distance : distance[k] = dist})
         IN [shrine_id |-> shrine, dist |-> dist,
             water_pos |-> find_nearest_water_tiles(shrine)[first]])

\* ranked.sort(key=dist): stable, nearest first.
RECURSIVE sort_by_distance(_)
sort_by_distance(ranked) ==
  IF ranked = <<>> THEN <<>>
  ELSE LET sorted_front == sort_by_distance(SubSeq(ranked, 1, Len(ranked) - 1))
           x == Last(ranked)
           keep == {k \in DOMAIN sorted_front : sorted_front[k].dist <= x.dist}
           at == IF keep = {} THEN 0 ELSE Max(keep)
       IN SubSeq(sorted_front, 1, at) \o <<x>>
          \o SubSeq(sorted_front, at + 1, Len(sorted_front))

\* The appending loop of add_remaining_shrines.
RECURSIVE extend_from(_, _, _)
extend_from(ranked, extended_route, added) ==
  IF ranked = <<>> THEN [route |-> extended_route, added |-> added]
  ELSE With(get_shortest_path(Last(extended_route), Head(ranked).water_pos),
            LAMBDA to_shrine :
              IF to_shrine = <<>> THEN extend_from(Tail(ranked), extended_route, added)
              ELSE extend_from(Tail(ranked), append_path(extended_route, to_shrine),
                               Append(added, Head(ranked).shrine_id)))

\* add_remaining_shrines: the route repaired after the appended legs; raised
\* when a shrine has no water neighbour (min of an empty sequence) or the
\* repair fails.
add_remaining_shrines(route, shrine_candidates, already_placed, remaining_count) ==
  LET available == SelectSeq(shrine_candidates,
                             LAMBDA shrine : shrine \notin Range(already_placed))
  IN IF remaining_count <= 0 \/ available = <<>>
       THEN [route |-> route, added |-> <<>>, raised |-> FALSE]
     ELSE IF \E k \in DOMAIN available : find_nearest_water_tiles(available[k]) = <<>>
       THEN [route |-> <<>>, added |-> <<>>, raised |-> TRUE]
     ELSE With(sort_by_distance(
                 SelectSeq([k \in DOMAIN available |->
                              rank_shrine(Last(route), available[k])],
                           LAMBDA item : item.dist # inf_distance)),
               LAMBDA ranked :
       With(extend_from(SubSeq(ranked, 1, Min({remaining_count, Len(ranked)})),
                        route, <<>>),
            LAMBDA extended :
         With(repair_route(extended.route), LAMBDA repaired :
           [route |-> repaired.route, added |-> extended.added,
            raised |-> repaired.raised])))

\* ------------------------------------------------------------------------
\* shrine_optimizer.py : ShrineOptimizer
\* ------------------------------------------------------------------------
OptimizeRaised(m) == [route |-> <<>>, shrine_positions |-> <<>>, raised |-> TRUE, tm |-> m]

\* optimize_shrine_placement: the optimized route, the shrine positions and
\* the task manager with the shrines registered; raised on ValueError.
optimize_shrine_placement(m, route, max_shrines) ==
  LET shrine_candidates == get_shrine_candidates(m)
      target_shrines == remaining_shrine_requirement(m)
  IN IF route = <<>> \/ max_shrines <= 0 \/ target_shrines <= 0
       THEN [route |-> route, shrine_positions |-> <<>>, raised |-> FALSE, tm |-> m]
     ELSE IF Len(shrine_candidates) < target_shrines THEN OptimizeRaised(m)
     ELSE With(insert_shrines_into_route(
                 route,
                 select_optimal_shrines(
                   find_shrine_opportunities(route, shrine_candidates),
                   target_shrines)),
               LAMBDA inserted :
       With(repair_route(inserted.route), LAMBDA repaired :
         IF repaired.raised THEN OptimizeRaised(m)
         ELSE With(IF Len(inserted.shrine_positions) < target_shrines
                     THEN add_remaining_shrines(
                            repaired.route, shrine_candidates,
                            inserted.shrine_positions,
                            target_shrines - Len(inserted.shrine_positions))
                   ELSE [route |-> repaired.route, added |-> <<>>, raised |-> FALSE],
                   LAMBDA extra :
           LET shrine_positions == inserted.shrine_positions \o extra.added
           IN IF extra.raised THEN OptimizeRaised(m)
              ELSE IF Len(shrine_positions) < target_shrines THEN OptimizeRaised(m)
              ELSE With(ensure_return_to_zeus(extra.route), LAMBDA returned :
                     IF returned.raised
                       THEN [OptimizeRaised(m) EXCEPT
                               !.tm = register_scheduled_shrines(m, shrine_positions)]
                     ELSE [route |-> returned.route,
                           shrine_positions |-> shrine_positions,
                           raised |-> FALSE,
                           tm |-> register_scheduled_shrines(m, shrine_positions)]))))

\* ------------------------------------------------------------------------
\* Specification SpecRoute: solve or solve_with_custom_cycles, then
\* optimize_shrine_placement (the pipeline of main.py up to the simulation)
\* ------------------------------------------------------------------------
RouteQuotas == {0, 1}

\* --max-shrines of the command line.
MaxShrineArgs == {0, 3}

TaskTilesOf(tasks) == {tasks[k].tile_id : k \in DOMAIN tasks}

\* Custom cycles: the task tiles up to some tile and the task tiles after
\* it; a single tile that carries no task; all the task tiles followed by
\* a cycle of one tile that carries no task.
CustomCycleInputs(tasks) ==
  {<<SortedSeq({t \in TaskTilesOf(tasks) : t <= x}),
     SortedSeq({t \in TaskTilesOf(tasks) : t > x})>> : x \in {NoTile} \cup TaskTilesOf(tasks)}
  \cup {<< <<t>> >> : t \in {n \in TileIds : n \notin TaskTilesOf(tasks) /\ n <= 2}}
  \cup {<<SortedSeq(TaskTilesOf(tasks)), <<t>> >> :
           t \in {n \in TileIds : n \notin TaskTilesOf(tasks) /\ n <= 2}}

RouteInit ==
  /\ tile_type \in RouteGrids
  /\ colours = RouteColours(tile_type)
  /\ zeus_tile_id \in RouteHubs
  /\ \E required \in RouteQuotas :
        tm = NewTaskManager(tile_type, colours, required, <<>>)
  /\ player = NewPlayerState(NoTile)
  /\ sim = IdleSim
  /\ exec_log = <<>>
  /\ last_call = NoCall
  /\ topo = IdleTopo
  /\ \E tb \in TieBreaks :
        solver = [pc |-> "ready", tiebreak |-> tb, by |-> "none", route |-> <<>>,
                  cycles |-> <<>>, stats |-> NoStats, shrine_positions |-> <<>>,
                  max_shrines |-> 0, error |-> <<>>]

\* The solver after a call: the returned route and statistics, the error
\* of a raise, and self.cycles, which a call that returns or raises before
\* its assignment leaves as it was. The statistics of the hub-only route
\* are counted over self.cycles.
Solved(result, by) ==
  [solver EXCEPT !.pc = IF result.raised THEN "raised" ELSE "solved",
                 !.by = by, !.route = result.route,
                 !.cycles = IF result.stored THEN result.cycles ELSE @,
                 !.stats = IF result.stored \/ result.raised THEN result.stats
                           ELSE calculate_statistics(result.route, solver.cycles),
                 !.error = result.error]

Solve ==
  /\ solver.pc = "ready"
  /\ solver' = Solved(solve(tm.tasks), "solve")
  /\ UNCHANGED <<tile_type, colours, zeus_tile_id, tm, player, sim, exec_log,
                 last_call, topo>>

\* solve_with_custom_cycles on a fresh solver, or on the solver that
\* solve() has just used.
SolveWithCustomCycles(cycle_tile_ids) ==
  /\ \/ solver.pc = "ready"
     \/ solver.pc = "solved" /\ solver.by = "solve"
  /\ solver' = Solved(solve_with_custom_cycles(tm.tasks, cycle_tile_ids), "custom")
  /\ UNCHANGED <<tile_type, colours, zeus_tile_id, tm, player, sim, exec_log,
                 last_call, topo>>

OptimizeShrinePlacement(max_shrines) ==
  /\ solver.pc = "solved"
  /\ \E result \in {optimize_shrine_placement(tm, solver.route, max_shrines)} :
        /\ solver' = [solver EXCEPT
                        !.pc = IF result.raised THEN "raised" ELSE "optimized",
                        !.by = "optimize", !.route = result.route,
                        !.max_shrines = max_shrines,
                        !.shrine_positions = result.shrine_positions]
        /\ tm' = result.tm
  /\ UNCHANGED <<tile_type, colours, zeus_tile_id, player, sim, exec_log,
                 last_call, topo>>

RouteNext ==
  \/ Solve
  \/ \E cycle_tile_ids \in CustomCycleInputs(tm.tasks) :
        SolveWithCustomCycles(cycle_tile_ids)
  \/ \E max_shrines \in MaxShrineArgs : OptimizeShrinePlacement(max_shrines)

SpecRoute == RouteInit /\ [][RouteNext]_vars

RouteReturned == solver.pc \in {"solved", "optimized"}

Adjacent(route) ==
  \A k \in 1..(Len(route) - 1) : route[k + 1] \in Range(neighbours[route[k]])

\* C1: a route returned by solve() starts at the hub, ends at the hub, and
\* every two consecutive tiles of it are grid-adjacent.
C1_SolveRouteIsClosedWalk ==
  (solver.pc = "solved" /\ solver.by = "solve") =>
     /\ solver.route # <<>>
     /\ solver.route[1] = zeus_tile_id
     /\ Last(solver.route) = zeus_tile_id
     /\ Adjacent(solver.route)

\* solve() on a map with tasks and a land hub returned a route that leaves
\* the hub and comes back.
C1_Witness ==
  /\ solver.pc = "solved"
  /\ solver.by = "solve"
  /\ ~is_water(zeus_tile_id)
  /\ Len(solver.route) > 3
  /\ solver.route[1] = zeus_tile_id
  /\ Last(solver.route) = zeus_tile_id

\* C2: every tile of a route returned by solve(), solve_with_custom_cycles()
\* or optimize_shrine_placement() is a water tile or the hub.
C2_RouteOnWaterOrHub ==
  RouteReturned =>
     \A k \in DOMAIN solver.route :
        is_water(solver.route[k]) \/ solver.route[k] = zeus_tile_id

\* The same for the routes of the two solvers only.
SolverRouteOnWaterOrHub ==
  solver.pc = "solved" =>
     \A k \in DOMAIN solver.route :
        is_water(solver.route[k]) \/ solver.route[k] = zeus_tile_id

\* The task sets of the cycles of the solver, in routing order.
RoutedCycles == [k \in DOMAIN solver.cycles |-> Range(solver.cycles[k].tasks)]

\* C6: when the dependency graph of the cycles of solve() is acyclic, every
\* cycle that contains a pickup is routed before every other cycle that
\* contains the matching delivery.
C6_SolveRoutesProducersFirst ==
  (solver.pc = "solved" /\ solver.by = "solve" /\ Acyclic(RoutedCycles)) =>
     \A i, j \in DOMAIN solver.cycles :
        Requires(RoutedCycles, i, j) => j < i

\* The tiles of a grouping that are not the tile of a selected task.
ForeignTiles(cycle_tile_ids) ==
  Range(FlattenSeq(cycle_tile_ids)) \ TaskTilesOf(tm.tasks)

\* C14: solve_with_custom_cycles, given a grouping that lists a tile which
\* is not the tile of a selected task, raises an error that names such a
\* tile, returns no route and leaves the stored cycles of the solver as
\* they were.
C14_ForeignTileRaisesBeforeRouting ==
  [][\A cycle_tile_ids \in CustomCycleInputs(tm.tasks) :
       (ForeignTiles(cycle_tile_ids) # {} /\ SolveWithCustomCycles(cycle_tile_ids)) =>
          /\ solver'.pc = "raised"
          /\ Len(solver'.error) = 2
          /\ solver'.error[1] = "not a task tile"
          /\ solver'.error[2] \in ForeignTiles(cycle_tile_ids)
          /\ solver'.route = <<>>
          /\ solver'.cycles = solver.cycles
          /\ solver'.stats = NoStats]_vars

\* The cycle has no boundaries.
Unlocated(cycle) ==
  /\ cycle.entry_index = NoIndex
  /\ cycle.exit_index = NoIndex
  /\ cycle.internal_route = <<>>

\* The boundaries of the cycle lie on the route and enclose its internal
\* route.
Located(route, cycle) ==
  /\ 0 <= cycle.entry_index
  /\ cycle.entry_index <= cycle.exit_index
  /\ cycle.exit_index < Len(route)
  /\ cycle.internal_route =
       [k \in 1..(cycle.exit_index - cycle.entry_index + 1) |->
          route[cycle.entry_index + k]]

CyclesAligned(route, cycles) ==
  /\ \A k \in DOMAIN cycles : Unlocated(cycles[k]) \/ Located(route, cycles[k])
  /\ \A j, k \in DOMAIN cycles :
       (j < k /\ ~Unlocated(cycles[j]) /\ ~Unlocated(cycles[k])) =>
          cycles[j].exit_index <= cycles[k].entry_index

C14_Witness ==
  /\ solver.pc = "raised"
  /\ solver.by = "custom"
  /\ Len(solver.error) = 2
  /\ solver.error[1] = "not a task tile"
  /\ solver.error[2] \notin TaskTilesOf(tm.tasks)
  /\ solver.cycles # <<>>
  /\ solver.route = <<>>

\* ------------------------------------------------------------------------
\* simulator.py : simulate_route on a whole route
\* ------------------------------------------------------------------------
\* _simulate_step on one route pair; st carries [player, tm, log, steps,
\* errors, raised].
simulate_step(st, from_tile_id, to_tile_id, shrine_set, step_number) ==
  IF simulate_step_error(from_tile_id, to_tile_id) # ""
    THEN [st EXCEPT !.steps = Append(@, "error"),
                    !.errors = Append(@, <<"step", step_number,
                                           simulate_step_error(from_tile_id, to_tile_id)>>)]
  ELSE With(check_and_execute_tasks(
              to_tile_id,
              [tasks |-> st.tm.tasks, player |-> execute_move(st.player, to_tile_id, 1),
               raised |-> FALSE, log |-> st.log, acted |-> FALSE],
              step_number),
            LAMBDA t :
    With(IF t.raised
           THEN [player |-> t.player, tm |-> [st.tm EXCEPT !.tasks = t.tasks],
                 acted |-> FALSE]
         ELSE check_and_build_shrines(
                neighbours[to_tile_id],
                [player |-> t.player, tm |-> [st.tm EXCEPT !.tasks = t.tasks],
                 acted |-> FALSE],
                shrine_set),
         LAMBDA s :
      [player |-> s.player, tm |-> s.tm, log |-> t.log,
       steps |-> Append(st.steps, IF s.acted THEN "shrine"
                                  ELSE IF t.acted THEN "task" ELSE "move"),
       errors |-> st.errors, raised |-> t.raised]))

\* The loop of simulate_route from the pair (route[i], route[i + 1]) on; it
\* breaks at the first step of action_type 'error'.
RECURSIVE simulate_pairs(_, _, _, _)
simulate_pairs(route, i, shrine_set, st) ==
  IF i >= Len(route) \/ st.raised \/ st.errors # <<>> THEN st
  ELSE simulate_pairs(route, i + 1, shrine_set,
                      simulate_step(st, route[i], route[i + 1], shrine_set, i))

\* _error_result: no step, a fresh player state, the one message.
error_result(m, message) ==
  [player |-> NewPlayerState(NoTile), tm |-> m, log |-> <<>>, steps |-> <<>>,
   errors |-> <<message>>, success |-> FALSE, raised |-> FALSE]

\* simulate_route: the SimulationResult with the task manager it leaves.
simulate_route(m, route, shrine_positions) ==
  IF route = <<>> THEN error_result(m, "empty_route")
  ELSE IF route[1] # zeus_tile_id THEN error_result(m, "not_from_zeus")
  ELSE With(simulate_pairs(route, 1, Range(shrine_positions),
                           [player |-> NewPlayerState(zeus_tile_id), tm |-> m,
                            log |-> <<>>, steps |-> <<>>, errors |-> <<>>,
                            raised |-> FALSE]),
            LAMBDA st :
    With(IF st.raised \/ st.errors # <<>> THEN st.errors
         ELSE validate_final_state(st.player, Last(route), st.tm),
         LAMBDA errors :
      [player |-> st.player, tm |-> st.tm, log |-> st.log, steps |-> st.steps,
       errors |-> errors, success |-> (~st.raised /\ errors = <<>>),
       raised |-> st.raised]))

\* ------------------------------------------------------------------------
\* Specification SpecShrine: solve, optimize_shrine_placement and
\* simulate_route on maps with one to three shrine tiles (the pipeline of
\* main.py from the solver to the simulation)
\* ------------------------------------------------------------------------
\* The maps of RouteGrids with the monster at tile 1; tiles 4 and 11 are
\* water or further shrine tiles.
\*      M   .   T   ?
\*        T   .   .   S
\*      T   .   ?   T
ShrineAllowedTypes ==
  [RouteAllowedTypes EXCEPT ![1] = {"monster"},
                            ![4] = {"water", "shrine"},
                            ![11] = {"water", "shrine"}]

ShrineGrids ==
  {tt \in SeqProduct(ShrineAllowedTypes) :
     \A kind \in TaskKinds : Cardinality({t \in TileIds : tt[t] = kind}) = 1}

\* The quota of the task manager.
ShrineQuotas == 0..3

\* The hub is the land tile 1, the water tile 2 or the water tile 7, which
\* lies next to every shrine tile.
ShrineHubs == {1, 2, 7}

ShrineInit ==
  /\ tile_type \in ShrineGrids
  /\ colours = RouteColours(tile_type)
  /\ zeus_tile_id \in ShrineHubs
  /\ \E required \in ShrineQuotas :
        tm = NewTaskManager(tile_type, colours, required, <<>>)
  /\ player = NewPlayerState(NoTile)
  /\ sim = IdleSim
  /\ exec_log = <<>>
  /\ last_call = NoCall
  /\ topo = IdleTopo
  /\ \E tb \in TieBreaks :
        solver = [pc |-> "ready", tiebreak |-> tb, by |-> "none", route |-> <<>>,
                  cycles |-> <<>>, stats |-> NoStats, shrine_positions |-> <<>>,
                  max_shrines |-> 0, error |-> <<>>]

\* simulator.simulate_route(optimised_route, shrine_positions) of main.py.
SimulateRoute ==
  /\ solver.pc = "optimized"
  /\ sim.pc = "idle"
  /\ \E result \in {simulate_route(tm, solver.route, solver.shrine_positions)} :
        /\ player' = result.player
        /\ tm' = result.tm
        /\ exec_log' = result.log
        /\ sim' = [pc |-> IF result.raised THEN "raised" ELSE "done",
                   route_len |-> Len(result.steps) + 1,
                   route_last |-> solver.route[Len(result.steps) + 1],
                   shrine_set |-> Range(solver.shrine_positions),
                   steps |-> result.steps, errors |-> result.errors,
                   success |-> result.success, raised |-> result.raised]
  /\ UNCHANGED <<tile_type, colours, zeus_tile_id, last_call, topo, solver>>

ShrineNext ==
  \/ Solve
  \/ \E max_shrines \in MaxShrineArgs : OptimizeShrinePlacement(max_shrines)
  \/ SimulateRoute

SpecShrine == ShrineInit /\ [][ShrineNext]_vars

\* The simulation of the optimized route was run to its end.
Simulated == solver.pc = "optimized" /\ sim.pc \in {"done", "raised"}

C16_ExcessQuotaRejectedBeforeSolve ==
  tm.required_shrine_count > Cardinality({t \in TileIds : tile_type[t] = "shrine"}) =>
     /\ solver.pc \notin {"solved", "optimized"}
     /\ solver.route = <<>>
     /\ tm.scheduled_shrines = <<>>

\* C17: after every simulated move the turn count of the player is the
\* ceiling of a third of its move count, the total_turns that the solver
\* statistics give for a route of that many moves.
C17_TurnsAreCeilingOfMoves ==
  /\ player.total_turns = (player.total_moves + 2) \div 3
  /\ player.total_turns =
       calculate_statistics([k \in 1..(player.total_moves + 1) |-> zeus_tile_id],
                            <<>>).total_turns

\* The run took the route from the hub on: it did not end in _error_result.
StartedAtHub == sim.route_len >= 2 \/ (sim.route_len = 1 /\ sim.route_last = zeus_tile_id)

\* C18: the result of simulate_route on a route from the hub carries one
\* trace entry for every route pair processed: all of them are legal moves
\* when the route was walked to its end, the last one is the first illegal
\* move otherwise; failed end checks leave the trace in place.
C18_TraceCoversProcessedPairs ==
  (sim.pc = "done" /\ StartedAtHub) =>
     /\ Len(sim.steps) = sim.route_len - 1
     /\ \A k \in 1..(Len(sim.steps) - 1) : sim.steps[k] # "error"
     /\ (sim.steps # <<>> /\ Last(sim.steps) = "error") =>
           (Len(sim.errors) = 1 /\ sim.errors[1][1] = "step"
            /\ sim.errors[1][2] = Len(sim.steps))

\* A route of two legal moves was walked to its end and failed an end
\* check; the trace has both entries.
C18_Witness ==
  /\ sim.pc = "done"
  /\ StartedAtHub
  /\ ~sim.success
  /\ sim.errors # <<>>
  /\ Len(sim.steps) = 2
  /\ \A k \in DOMAIN sim.steps : sim.steps[k] # "error"

\* ------------------------------------------------------------------------
\* Specification SpecQuota: one base route optimized under several quotas
\* ------------------------------------------------------------------------
\* --max-shrines of the command line, by default.
DEFAULT_MAX_SHRINES == 3

\* Not yet optimized under the quota.
NotRun == 0 - 2

QuotaInit ==
  /\ tile_type \in ShrineGrids
  /\ colours = RouteColours(tile_type)
  /\ zeus_tile_id \in ShrineHubs
  /\ tm = NewTaskManager(tile_type, colours, 0, <<>>)
  /\ player = NewPlayerState(NoTile)
  /\ sim = IdleSim
  /\ exec_log = <<>>
  /\ last_call = NoCall
  /\ topo = IdleTopo
  /\ \E tb \in TieBreaks :
        solver = [pc |-> "ready", tiebreak |-> tb, by |-> "none", route |-> <<>>,
                  cycles |-> <<>>, stats |-> NoStats, shrine_positions |-> <<>>,
                  max_shrines |-> 0, error |-> <<>>,
                  quota_moves |-> [q \in ShrineQuotas |-> NotRun]]

\* set_required_shrine_count(quota) on a task manager with nothing
\* scheduled, then optimize_shrine_placement on the route of solve();
\* quota_moves keeps the moves of the returned route, NoPath when the call
\* raised.
OptimizeWithQuota(quota) ==
  /\ solver.pc = "solved"
  /\ solver.quota_moves[quota] = NotRun
  /\ \E result \in {optimize_shrine_placement(
                       [tm EXCEPT !.required_shrine_count = quota],
                       solver.route, DEFAULT_MAX_SHRINES)} :
        solver' = [solver EXCEPT
                     !.quota_moves[quota] =
                        IF result.raised THEN NoPath
                        ELSE Max({0, Len(result.route) - 1})]
  /\ UNCHANGED <<tile_type, colours, zeus_tile_id, tm, player, sim, exec_log,
                 last_call, topo>>

QuotaNext ==
  \/ Solve
  \/ \E quota \in ShrineQuotas : OptimizeWithQuota(quota)

SpecQuota == QuotaInit /\ [][QuotaNext]_vars

get_water_tiles(tt) == {t \in DOMAIN tt : tt[t] = "water"}

\* The `while stack` loop: the last tile of the stack is popped and its
\* water neighbours that are not connected yet are added and pushed.
RECURSIVE flood_water(_, _, _)
flood_water(water_tiles, connected, stack) ==
  IF stack = <<>> THEN connected
  ELSE LET fresh == SelectSeq(neighbours[Last(stack)],
                              LAMBDA n : n \in water_tiles /\ n \notin connected)
       IN flood_water(water_tiles, connected \cup Range(fresh),
                      SubSeq(stack, 1, Len(stack) - 1) \o fresh)

\* The water check with every water tile taken as connected.
water_issues_never(tt, start) == <<>>

\* The water check of validate_grid, flooding from start, the tile that
\* next(iter(water_tiles)) yields.
water_issues(tt, start) ==
  IF get_water_tiles(tt) = {} THEN <<>>
  ELSE IF Cardinality(flood_water(get_water_tiles(tt), {start}, <<start>>))
            # Cardinality(get_water_tiles(tt))
    THEN << <<"Not all water tiles are connected">> >>
  ELSE <<>>

per_colour_requirements == [monster |-> 2, offering |-> 2, statue_source |-> 1, statue_island |-> 3, temple |-> 1]

\* The keys of per_colour_requirements in dict order.
requirement_order == <<"monster", "offering", "statue_source", "statue_island", "temple">>

\* sorted() of the colours of the model.
sorted_colours == <<"blue", "green", "pink">>

get_available_colours(cols) == UNION {cols[t] : t \in DOMAIN cols}

\* The issues of one colour, in the order of per_colour_requirements.
colour_issues(tt, cols, colour) ==
  LET count(kind) == Cardinality({t \in DOMAIN tt : tt[t] = kind /\ colour \in cols[t]})
      short == SelectSeq(requirement_order,
                         LAMBDA kind : count(kind) < per_colour_requirements[kind])
  IN [k \in DOMAIN short |-> <<"colour", colour, short[k]>>]

\* validate_grid: hub, neighbour references (every neighbour list of the
\* model is rebuilt from the coordinates, so none dangles), water, and the
\* tiles each available colour needs.
validate_grid(tt, cols, zeus, start) ==
  (IF zeus = NoTile THEN << <<"Zeus tile not set">> >>
   ELSE IF zeus \notin DOMAIN tt THEN << <<"Zeus tile not found in grid">> >>
   ELSE <<>>)
  \o water_issues(tt, start)
  \o FlattenSeq([k \in DOMAIN sorted_colours |->
                   IF sorted_colours[k] \in get_available_colours(cols)
                     THEN colour_issues(tt, cols, sorted_colours[k])
                   ELSE <<>>])

\* ------------------------------------------------------------------------
\* Specification SpecGrid: main.py from the loaded grid to the solver
\* ------------------------------------------------------------------------
\* The kinds the tiles of the loaded grids have when they are land: the
\* tiles every colour needs, and three shrines.
GridLand ==
  << "monster", "shrine", "monster", "offering",
     "offering", "statue_source", "shrine", "statue_island",
     "statue_island", "statue_island", "temple", "shrine" >>

\* Any set of tiles may be water.
GridTypes == {[t \in TileIds |-> IF t \in water THEN "water" ELSE GridLand[t]] : water \in SUBSET TileIds}

GridHubs == {NoTile, 1, 7}

DEFAULT_REQUIRED_SHRINES == 3

NoTaskManager == [tasks |-> <<>>, required_shrine_count |-> 0, scheduled_shrines |-> <<>>, completed_shrines |-> {}]

GridInit ==
  /\ tile_type \in GridTypes
  /\ colours = RouteColours(tile_type)
  /\ zeus_tile_id \in GridHubs
  /\ tm = NoTaskManager
  /\ player = NewPlayerState(NoTile)
  /\ sim = IdleSim
  /\ exec_log = <<>>
  /\ last_call = NoCall
  /\ topo = IdleTopo
  /\ solver = [pc |-> "loaded", issues |-> <<>>]

\* main: validate_grid and the colour count; any issue ends the run with
\* exit code 1.
ValidateGrid ==
  /\ solver.pc = "loaded"
  /\ \E start \in IF get_water_tiles(tile_type) = {} THEN {NoTile}
                  ELSE get_water_tiles(tile_type) :
       \E issues \in {validate_grid(tile_type, colours, zeus_tile_id, start)
                      \o IF Cardinality(get_available_colours(colours)) < 3
                           THEN << <<"Insufficient colours available">> >>
                         ELSE <<>>} :
          solver' = [solver EXCEPT !.issues = issues,
                                   !.pc = IF issues # <<>> THEN "exit" ELSE "validated"]
  /\ UNCHANGED <<tile_type, colours, zeus_tile_id, tm, player, sim, exec_log,
                 last_call, topo>>

\* main after a clean validation: the colours are chosen, the task manager
\* selects its tasks and the solver is ready to run.
SetUpTasks ==
  /\ solver.pc = "validated"
  /\ tm' = NewTaskManager(tile_type, colours, DEFAULT_REQUIRED_SHRINES, <<>>)
  /\ solver' = [solver EXCEPT !.pc = "ready"]
  /\ UNCHANGED <<tile_type, colours, zeus_tile_id, player, sim, exec_log,
                 last_call, topo>>

GridNext == ValidateGrid \/ SetUpTasks

SpecGrid == GridInit /\ [][GridNext]_vars

\* Two or more water regions: some water tiles, not all of them, have no
\* neighbour among the other water tiles.
WaterSplit ==
  \E region \in SUBSET get_water_tiles(tile_type) :
     /\ region # {}
     /\ region # get_water_tiles(tile_type)
     /\ \A a \in region : \A b \in get_water_tiles(tile_type) \ region :
           b \notin Range(neighbours[a])

WaterIssueReported ==
  \E k \in DOMAIN solver.issues : solver.issues[k] = <<"Not all water tiles are connected">>

\* C15: grid validation reports the water issue exactly when the water
\* tiles fall into two or more regions, and a run that reported it never
\* sets up tasks or readies the solver.
C15_WaterIssueIffSplit ==
  solver.pc # "loaded" =>
     /\ WaterIssueReported <=> WaterSplit
     /\ WaterIssueReported => (solver.pc = "exit" /\ tm = NoTaskManager)

\* A grid whose only flaw is its two water regions was rejected.
C15_Witness ==
  /\ solver.pc = "exit"
  /\ solver.issues = << <<"Not all water tiles are connected">> >>
  /\ WaterSplit


\* ------------------------------------------------------------------------
\* map_model.py : ensure_task_accessibility
\* ------------------------------------------------------------------------
to_water(grid, t) ==
  [grid EXCEPT !.tile_type[t] = "water", !.colours[t] = {}]

\* The loop body with nothing converted.
ensure_tile_accessible_skipped(grid, tile, nbrs, zeus) == grid

\* The loop body for one tile of the snapshot: nothing with a water
\* neighbour; else the first neighbour that is not water turns into water;
\* else, without a neighbour, the tile itself does.
ensure_tile_accessible(grid, tile, nbrs, zeus) ==
  LET land == SelectSeq(nbrs[tile], LAMBDA n : grid.tile_type[n] # "water")
  IN IF \E k \in DOMAIN nbrs[tile] : grid.tile_type[nbrs[tile][k]] = "water"
       THEN grid
     ELSE IF land # <<>> THEN to_water(grid, land[1])
     ELSE IF tile = zeus /\ nbrs[tile] # <<>> THEN grid
     ELSE to_water(grid, tile)

RECURSIVE ensure_tiles_accessible(_, _, _, _)
ensure_tiles_accessible(grid, task_tiles, nbrs, zeus) ==
  IF task_tiles = <<>> THEN grid
  ELSE ensure_tiles_accessible(ensure_tile_accessible(grid, Head(task_tiles), nbrs, zeus),
                               Tail(task_tiles), nbrs, zeus)

\* ensure_task_accessibility: the loop over the tiles that were land when
\* the pass began, in dict order.
ensure_task_accessibility(grid, nbrs, zeus) ==
  ensure_tiles_accessible(
    grid, SortedSeq({t \in DOMAIN grid.tile_type : grid.tile_type[t] # "water"}),
    nbrs, zeus)

\* ------------------------------------------------------------------------
\* Specification SpecAccess: ensure_task_accessibility on a loaded grid
\* ------------------------------------------------------------------------
\* The neighbour lists with the tiles of cut taken off the grid.
CutOff(cut) ==
  [t \in TileIds |->
     IF t \in cut THEN <<>>
     ELSE SelectSeq(neighbours[t], LAMBDA n : n \notin cut)]

\* The 4 x 3 patch, and the patch with a corner or the first row standing
\* apart from the other tiles.
AccessShapes == {CutOff({}), CutOff({12}), CutOff({1, 2, 3, 4})}

AccessHubs == {1, 6}

AccessInit ==
  /\ tile_type \in GridTypes
  /\ colours = RouteColours(tile_type)
  /\ zeus_tile_id \in AccessHubs
  /\ tm = NoTaskManager
  /\ player = NewPlayerState(NoTile)
  /\ sim = IdleSim
  /\ exec_log = <<>>
  /\ last_call = NoCall
  /\ topo = IdleTopo
  /\ \E nbrs \in AccessShapes :
        solver = [pc |-> "loaded", neighbours |-> nbrs, loaded |-> tile_type]

EnsureTaskAccessibility ==
  /\ solver.pc = "loaded"
  /\ \E grid \in {ensure_task_accessibility(
                    [tile_type |-> tile_type, colours |-> colours],
                    solver.neighbours, zeus_tile_id)} :
        /\ tile_type' = grid.tile_type
        /\ colours' = grid.colours
  /\ solver' = [solver EXCEPT !.pc = "accessible"]
  /\ UNCHANGED <<zeus_tile_id, tm, player, sim, exec_log, last_call, topo>>

AccessNext == EnsureTaskAccessibility

SpecAccess == AccessInit /\ [][AccessNext]_vars

\* C19: after ensure_task_accessibility every tile that is still land has
\* a water tile among its neighbours.
C19_LandTilesTouchWater ==
  solver.pc = "accessible" =>
     \A t \in TileIds :
        tile_type[t] # "water" =>
           \E k \in DOMAIN solver.neighbours[t] :
              tile_type[solver.neighbours[t][k]] = "water"

\* The pass turned a neighbour into water for a land tile that had no
\* water next to it, and turned a tile without neighbours into water.
C19_Witness ==
  /\ solver.pc = "accessible"
  /\ \E t \in TileIds :
        /\ tile_type[t] # "water"
        /\ \A k \in DOMAIN solver.neighbours[t] :
              solver.loaded[solver.neighbours[t][k]] # "water"
  /\ \E t \in TileIds :
        /\ solver.neighbours[t] = <<>>
        /\ solver.loaded[t] # "water"
        /\ tile_type[t] = "water"


\* C27: after ensure_task_accessibility the hub has the kind and the colours
\* it had before the pass.
C27_AccessibilityPassKeepsHub ==
  solver.pc = "accessible" =>
     /\ tile_type[zeus_tile_id] = solver.loaded[zeus_tile_id]
     /\ colours[zeus_tile_id] = RouteColours(solver.loaded)[zeus_tile_id]

\* ------------------------------------------------------------------------
\* Specification SpecPath: get_shortest_path queried on a routed map
\* ------------------------------------------------------------------------
NoQuery(tb) == [pc |-> "ready", tiebreak |-> tb, from_tile_id |-> NoTile, to_tile_id |-> NoTile, path |-> <<>>]

PathInit ==
  /\ tile_type \in ShrineGrids
  /\ colours = RouteColours(tile_type)
  /\ zeus_tile_id \in ShrineHubs
  /\ tm = NoTaskManager
  /\ player = NewPlayerState(NoTile)
  /\ sim = IdleSim
  /\ exec_log = <<>>
  /\ last_call = NoCall
  /\ topo = IdleTopo
  /\ \E tb \in TieBreaks : solver = NoQuery(tb)

\* One call of get_shortest_path; the answer is the one the path cache
\* keeps for the pair.
GetShortestPath(from_tile_id, to_tile_id) ==
  /\ solver.pc = "ready"
  /\ solver' = [solver EXCEPT !.pc = "answered",
                              !.from_tile_id = from_tile_id,
                              !.to_tile_id = to_tile_id,
                              !.path = get_shortest_path(from_tile_id, to_tile_id)]
  /\ UNCHANGED <<tile_type, colours, zeus_tile_id, tm, player, sim, exec_log,
                 last_call, topo>>

PathNext == \E from_tile_id, to_tile_id \in TileIds : GetShortestPath(from_tile_id, to_tile_id)

SpecPath == PathInit /\ [][PathNext]_vars

\* A tile a path may pass through: water, or the hub.
Passable(t) == is_water(t) \/ t = zeus_tile_id

\* The tiles at k, k + 1, ... moves from the start along grid-adjacent
\* tiles with passable tiles in between; the number of moves to the target,
\* NoPath when the walk cannot reach it.
RECURSIVE PassableMoves(_, _, _, _)
PassableMoves(seen, frontier, to_tile_id, k) ==
  IF to_tile_id \in frontier THEN k
  ELSE IF frontier = {} THEN NoPath
  ELSE LET next == {n \in TileIds \ seen :
                      \E f \in frontier :
                         /\ n \in Range(neighbours[f])
                         /\ (k = 0 \/ Passable(f))}
       IN PassableMoves(seen \cup next, next, to_tile_id, k + 1)

\* C20: a path returned by get_shortest_path(a, b) runs from a to b over
\* grid-adjacent tiles, passes only through water tiles or the hub, and no
\* such path is shorter; no path is returned exactly when there is none.
C20_ShortestPathOverWaterOrHub ==
  solver.pc = "answered" =>
     LET moves == PassableMoves({solver.from_tile_id}, {solver.from_tile_id},
                                solver.to_tile_id, 0)
     IN /\ (solver.path = <<>>) <=> (moves = NoPath)
        /\ solver.path # <<>> =>
             /\ solver.path[1] = solver.from_tile_id
             /\ Last(solver.path) = solver.to_tile_id
             /\ Adjacent(solver.path)
             /\ \A k \in 2..(Len(solver.path) - 1) : Passable(solver.path[k])
             /\ Len(solver.path) - 1 = moves


\* ------------------------------------------------------------------------
\* Specification SpecPlace: the steps of optimize_shrine_placement that
\* find, select and insert the shrine detours on the route of solve()
\* ------------------------------------------------------------------------
PlaceInit ==
  /\ tile_type \in ShrineGrids
  /\ colours = RouteColours(tile_type)
  /\ zeus_tile_id \in ShrineHubs
  /\ \E required \in ShrineQuotas :
        tm = NewTaskManager(tile_type, colours, required, <<>>)
  /\ player = NewPlayerState(NoTile)
  /\ sim = IdleSim
  /\ exec_log = <<>>
  /\ last_call = NoCall
  /\ topo = IdleTopo
  /\ \E tb \in TieBreaks :
        solver = [pc |-> "ready", tiebreak |-> tb, by |-> "none", route |-> <<>>,
                  cycles |-> <<>>, stats |-> NoStats, shrine_positions |-> <<>>,
                  max_shrines |-> 0, error |-> <<>>,
                  opportunities |-> <<>>, selected |-> <<>>, base_route |-> <<>>]

\* find_shrine_opportunities on the route of solve() and the shrine
\* candidates of the task manager.
FindShrineOpportunities ==
  /\ solver.pc = "solved"
  /\ solver' = [solver EXCEPT
                  !.pc = "found",
                  !.opportunities =
                     find_shrine_opportunities(solver.route, get_shrine_candidates(tm))]
  /\ UNCHANGED <<tile_type, colours, zeus_tile_id, tm, player, sim, exec_log,
                 last_call, topo>>

\* select_optimal_shrines for the quota, then insert_shrines_into_route.
InsertShrinesIntoRoute ==
  /\ solver.pc = "found"
  /\ \E selected \in {select_optimal_shrines(solver.opportunities,
                                             remaining_shrine_requirement(tm))} :
       \E inserted \in {insert_shrines_into_route(solver.route, selected)} :
          solver' = [solver EXCEPT !.pc = "inserted", !.by = "insert",
                                   !.selected = selected,
                                   !.base_route = solver.route,
                                   !.route = inserted.route,
                                   !.shrine_positions = inserted.shrine_positions]
  /\ UNCHANGED <<tile_type, colours, zeus_tile_id, tm, player, sim, exec_log,
                 last_call, topo>>

PlaceNext == Solve \/ FindShrineOpportunities \/ InsertShrinesIntoRoute

SpecPlace == PlaceInit /\ [][PlaceNext]_vars

\* The least detour cost of a shrine at the step from route[i] to
\* route[i + 1] (i counted from 0) over the water tiles next to the shrine:
\* there and on, less the direct hop; NoPath when none can be reached.
DetourCost(route, i, shrine) ==
  LET costs == {get_shortest_distance(route[i + 1], w)
                  + get_shortest_distance(w, route[i + 2])
                  - get_shortest_distance(route[i + 1], route[i + 2]) :
                w \in {x \in Range(find_nearest_water_tiles(shrine)) :
                         /\ get_shortest_distance(route[i + 1], x) # NoPath
                         /\ get_shortest_distance(x, route[i + 2]) # NoPath}}
  IN IF costs = {} THEN NoPath ELSE Min(costs)

\* C22: find_shrine_opportunities records an opportunity for step i and
\* shrine s exactly when the detour cost of s at step i is at most the
\* wasted moves 3 - ((i mod 3) + 1) of the step.
C22_OpportunityIffDetourFitsWaste ==
  solver.pc = "found" =>
     \A i \in 0..(Len(solver.route) - 2) :
        \A s \in Range(get_shrine_candidates(tm)) :
           (\E k \in DOMAIN solver.opportunities :
               /\ solver.opportunities[k].route_position = i
               /\ solver.opportunities[k].shrine_tile_id = s)
           <=> (/\ DetourCost(solver.route, i, s) # NoPath
                /\ DetourCost(solver.route, i, s) <= 3 - ((i % 3) + 1))

\* The selected opportunities whose shrine is in the returned shrine list.
Scheduled == SelectSeq(solver.selected,
                       LAMBDA o : o.shrine_tile_id \in Range(solver.shrine_positions))

RECURSIVE RecordedCost(_)
RecordedCost(opportunities) ==
  IF opportunities = <<>> THEN 0
  ELSE Head(opportunities).detour_cost + RecordedCost(Tail(opportunities))

\* C29: every detour that insert_shrines_into_route inserts for a selected
\* opportunity lengthens the route by the detour cost the opportunity
\* records, which is at most the wasted moves of its step; the route grows
\* by the recorded costs of the scheduled opportunities in all.
C29_InsertedDetourAddsRecordedCost ==
  solver.pc = "inserted" =>
     /\ \A k \in DOMAIN solver.selected :
          With(insert_shrines_into_route(solver.base_route, <<solver.selected[k]>>),
               LAMBDA alone :
                 alone.shrine_positions # <<>> =>
                    /\ Len(alone.route) - Len(solver.base_route)
                         = solver.selected[k].detour_cost
                    /\ solver.selected[k].detour_cost
                         <= 3 - ((solver.selected[k].route_position % 3) + 1))
     /\ Len(solver.route) - Len(solver.base_route) = RecordedCost(Scheduled)

\* C30: every selected opportunity whose shrine has a water tile next to it
\* that the boat can reach from the step of the opportunity is scheduled:
\* its shrine is in the shrine list insert_shrines_into_route returns.
C30_SelectedOpportunitiesAreScheduled ==
  solver.pc = "inserted" =>
     \A k \in DOMAIN solver.selected :
        (\E w \in Range(find_nearest_water_tiles(solver.selected[k].shrine_tile_id)) :
            get_shortest_distance(
              solver.base_route[solver.selected[k].route_position + 1], w) # NoPath)
          => solver.selected[k].shrine_tile_id \in Range(solver.shrine_positions)


\* ---------------------------------------------------------------------
\* Specification SpecCluster: _cluster_tasks_by_proximity on its own, on
\* task lists in every listing order and on a map wide enough for the
\* distance threshold and the size cap to matter.
\* ---------------------------------------------------------------------

\* Twelve tiles of a wider map: ten close together, two far to the east.
WideCoords == << <<0, 0>>, <<1, 0>>, <<2, 0>>, <<0, 1>>,
                 <<1, 1>>, <<2, 1>>, <<0, 2>>, <<1, 2>>,
                 <<2, 2>>, <<3, 1>>, <<12, 1>>, <<24, 1>> >>

ClusterMaps == {Coords, WideCoords}

\* Orders in which the task list can name the tiles.
ListingOrders ==
  { <<1, 2, 3, 4, 5, 6, 7, 8, 9, 10, 11, 12>>,
    <<12, 11, 10, 9, 8, 7, 6, 5, 4, 3, 2, 1>>,
    <<5, 11, 1, 10, 3, 12, 2, 4, 6, 7, 8, 9>> }

RECURSIVE Listed(_, _)
Listed(order, chosen) ==
  IF order = <<>> THEN <<>>
  ELSE IF Head(order) \in chosen THEN <<Head(order)>> \o Listed(Tail(order), chosen)
       ELSE Listed(Tail(order), chosen)

ClusterInit ==
  /\ tile_type = [t \in TileIds |-> "land"]
  /\ colours = [t \in TileIds |-> {}]
  /\ zeus_tile_id = NoTile
  /\ tm = NoTaskManager
  /\ player = NewPlayerState(NoTile)
  /\ sim = IdleSim
  /\ exec_log = <<>>
  /\ last_call = NoCall
  /\ topo = IdleTopo
  /\ \E coords \in ClusterMaps, order \in ListingOrders, chosen \in SUBSET TileIds :
        solver = [pc |-> "listed", coords |-> coords, tiles |-> Listed(order, chosen),
                  seeds |-> <<>>, clusters |-> <<>>]

ClusterTasksByProximity ==
  /\ solver.pc = "listed"
  /\ solver' = [solver EXCEPT
                  !.pc = "clustered",
                  !.seeds = IF solver.tiles = <<>> THEN <<>>
                            ELSE cluster_seeds(solver.coords, solver.tiles),
                  !.clusters = IF solver.tiles = <<>> THEN <<>>
                               ELSE cluster_indices(solver.coords, solver.tiles)]
  /\ UNCHANGED <<tile_type, colours, zeus_tile_id, tm, player, sim, exec_log,
                 last_call, topo>>

ClusterNext == ClusterTasksByProximity

SpecCluster == ClusterInit /\ [][ClusterNext]_vars

\* Least distance between a task and the members a seed cluster had when
\* the task was assigned: the seed and the members of lower position.
DistanceToCluster(task_idx, k) ==
  Min({task_land_distance(solver.coords, solver.tiles[task_idx], solver.tiles[m]) :
         m \in {solver.seeds[k]} \cup
               {m \in Range(solver.clusters[k]) : m < task_idx /\ m \notin Range(solver.seeds)}})

\* The members a seed cluster had when the task was assigned.
SizeOfCluster(task_idx, k) ==
  1 + Cardinality({m \in Range(solver.clusters[k]) :
                     m < task_idx /\ m \notin Range(solver.seeds)})

OpenClusters(task_idx) ==
  {k \in DOMAIN solver.seeds :
     /\ SizeOfCluster(task_idx, k) < MAX_CYCLE_TASKS
     /\ DistanceToCluster(task_idx, k) <= CYCLE_DISTANCE_THRESHOLD}

\* C23: the clusters partition the task list, none has more than 8 members,
\* a task that is not a seed joins a seed cluster only when that cluster is
\* not full, lies within distance 6 and is a nearest such cluster, and a
\* task with no such cluster is a cluster of its own.
C23_ClustersPartitionWithinCapAndThreshold ==
  solver.pc = "clustered" =>
    /\ \A i \in DOMAIN solver.tiles :
         Cardinality({k \in DOMAIN solver.clusters :
                        i \in Range(solver.clusters[k])}) = 1
    /\ \A k \in DOMAIN solver.clusters :
         /\ Range(solver.clusters[k]) \subseteq DOMAIN solver.tiles
         /\ Cardinality(Range(solver.clusters[k])) = Len(solver.clusters[k])
         /\ Len(solver.clusters[k]) <= MAX_CYCLE_TASKS
    /\ \A i \in DOMAIN solver.tiles \ Range(solver.seeds) :
         \A k \in DOMAIN solver.clusters :
           i \in Range(solver.clusters[k]) =>
             IF OpenClusters(i) = {}
               THEN k \notin DOMAIN solver.seeds /\ solver.clusters[k] = <<i>>
             ELSE /\ k \in OpenClusters(i)
                  /\ \A j \in OpenClusters(i) :
                       DistanceToCluster(i, k) <= DistanceToCluster(i, j)

\* A task list where one seed cluster is full, one task is out of reach of
\* every seed cluster, and a task stands alone.
C23_Witness ==
  /\ solver.pc = "clustered"
  /\ \E k \in DOMAIN solver.seeds : Len(solver.clusters[k]) = MAX_CYCLE_TASKS
  /\ \E i \in DOMAIN solver.tiles \ Range(solver.seeds) :
       /\ OpenClusters(i) = {}
       /\ \E k \in DOMAIN solver.seeds :
            DistanceToCluster(i, k) <= CYCLE_DISTANCE_THRESHOLD
  /\ \E i \in DOMAIN solver.tiles \ Range(solver.seeds) :
       OpenClusters(i) # {}

\* Least distance between a task and the seeds chosen before the j-th.
DistanceToSeeds(task_idx, j) ==
  Min({task_land_distance(solver.coords, solver.tiles[task_idx],
                          solver.tiles[solver.seeds[k]]) : k \in 1..(j - 1)})

\* The tasks still to choose from when the j-th seed is picked.
NotYetSeeds(j) == DOMAIN solver.tiles \ {solver.seeds[k] : k \in 1..(j - 1)}

\* The tasks farthest from the seeds chosen before the j-th.
FarthestFromSeeds(j) ==
  {c \in NotYetSeeds(j) :
     \A d \in NotYetSeeds(j) : DistanceToSeeds(d, j) <= DistanceToSeeds(c, j)}

\* min(N, max(2, ceil(N / 4))) for a list of N tasks.
SeedCount(n) ==
  Min({n, Max({2, CHOOSE c \in 0..n : 4 * c >= n /\ 4 * (c - 1) < n})})

\* C24 as stated: there are min(N, max(2, ceil(N/4))) seeds, the first is the
\* task tile of lowest tile id, and every later seed is a remaining tile
\* farthest from the seeds before it, the one of lowest tile id on a tie.
C24_SeedsByLowestTileId ==
  (solver.pc = "clustered" /\ solver.tiles # <<>>) =>
    /\ Len(solver.seeds) = SeedCount(Len(solver.tiles))
    /\ solver.tiles[solver.seeds[1]] = Min(Range(solver.tiles))
    /\ \A j \in 2..Len(solver.seeds) :
         /\ solver.seeds[j] \in FarthestFromSeeds(j)
         /\ \A c \in FarthestFromSeeds(j) :
              solver.tiles[solver.seeds[j]] <= solver.tiles[c]

\* C24 amended: there are min(N, max(2, ceil(N/4))) seeds, the first is the
\* first task of the list, and every later seed is a remaining task farthest
\* from the seeds before it, the one listed first on a tie.
C24_SeedsByListPosition ==
  (solver.pc = "clustered" /\ solver.tiles # <<>>) =>
    /\ Len(solver.seeds) = SeedCount(Len(solver.tiles))
    /\ solver.seeds[1] = 1
    /\ \A j \in 2..Len(solver.seeds) :
         /\ solver.seeds[j] \in FarthestFromSeeds(j)
         /\ \A c \in FarthestFromSeeds(j) : solver.seeds[j] <= c

\* A list of nine tasks or more, not in the order of the tile ids, where a
\* seed was chosen among several farthest tasks and a farther task than the
\* next in the list was preferred.
C24_Witness ==
  /\ solver.pc = "clustered"
  /\ Len(solver.seeds) >= 3
  /\ solver.tiles[1] # Min(Range(solver.tiles))
  /\ \E j \in 2..Len(solver.seeds) : Cardinality(FarthestFromSeeds(j)) >= 2
  /\ \E j \in 2..Len(solver.seeds) : solver.seeds[j] # Min(NotYetSeeds(j))

\* ---------------------------------------------------------------------
\* Specification SpecRerun: the pipeline of SpecShrine, with the simulator
\* asked to simulate the same route and shrine list a second time.
\* ---------------------------------------------------------------------

\* A second simulator.simulate_route(optimised_route, shrine_positions) on
\* the simulator and task manager of the first.
SimulateRouteAgain ==
  /\ solver.pc = "optimized"
  /\ sim.pc = "done"
  /\ \E result \in {simulate_route(tm, solver.route, solver.shrine_positions)} :
        /\ player' = result.player
        /\ tm' = result.tm
        /\ exec_log' = result.log
        /\ sim' = [pc |-> IF result.raised THEN "raised" ELSE "again",
                   route_len |-> Len(result.steps) + 1,
                   route_last |-> solver.route[Len(result.steps) + 1],
                   shrine_set |-> Range(solver.shrine_positions),
                   steps |-> result.steps, errors |-> result.errors,
                   success |-> result.success, raised |-> result.raised]
  /\ UNCHANGED <<tile_type, colours, zeus_tile_id, last_call, topo, solver>>

RerunNext ==
  \/ Solve
  \/ \E max_shrines \in MaxShrineArgs : OptimizeShrinePlacement(max_shrines)
  \/ SimulateRoute
  \/ SimulateRouteAgain

SpecRerun == ShrineInit /\ [][RerunNext]_vars

\* C28: a second simulation of the same route and shrine list, with the
\* same simulator and task manager, has the success flag, the completed
\* task ids, the shrines built and the errors of the first.
C28_SimulationRepeatable ==
  [][SimulateRouteAgain =>
       /\ sim'.success = sim.success
       /\ player'.completed_task_ids = player.completed_task_ids
       /\ player'.shrines_built = player.shrines_built
       /\ sim'.errors = sim.errors]_vars
====
